---------------------------- MODULE Spec2Model ----------------------------
(***************************************************************************)
(* A model of the orm package of dancewing/revel: the bind-plan cache of   *)
(* a modelInfo (model_bindings.go and its many-to-many companion), the     *)
(* metadata operations that reset it (model.go), the single-initialization *)
(* latch that guards each plan, and the model registry with its BootStrap  *)
(* gate.                                                                   *)
(*                                                                         *)
(* Conventions.  A Go map is a TLA+ function; ranging over a map visits    *)
(* its keys in an order the runtime chooses afresh for every loop, so      *)
(* every loop over a map takes the order as an argument and the actions    *)
(* draw it from Orders.  A *fieldInfo is identified by the name of its     *)
(* field (fields.Add keeps names unique inside one model).  A generated    *)
(* SQL text is the sequence of the pieces the code writes to its buffer.   *)
(* A panic or os.Exit ends the program: the action that would raise it is  *)
(* not enabled, or moves the program to its halted state.                  *)
(***************************************************************************)
EXTENDS Integers, Sequences, FiniteSets, TLC

VARIABLES
    mi,        \* the *modelInfo under test: metadata, fields and bind plans
    dialect,   \* Database().Get().Dialect: what AutoIncrBindValue() returns
    result,    \* what the last call on mi was given and what it returned
    keyOrder,  \* history: key names in the order they were first registered
    calls,     \* number of calls made so far in this run
    pc,        \* where each goroutine stands in the call it is making
    lock,      \* the goroutine holding the mutex the goroutines contend for, or 0
    runs,      \* history: how often the guarded body was entered
    modelCache, \* the registry: orders, cache, cacheByFullName, done
    halted,    \* the process has ended in os.Exit or an unrecovered panic
    database   \* the package variable database and the singletons made so far

threadVars == <<pc, lock, runs, modelCache, halted, database>>
vars == <<mi, dialect, result, keyOrder, calls, pc, lock, runs, modelCache, halted,
          database>>

(***************************************************************************)
(* Bounds of the model.                                                    *)
(***************************************************************************)
MaxCalls == 3
MaxVersion == 1
MaxTargets == 2
MaxThreads == 2
MaxPasses == 3

(***************************************************************************)
(* Field types (types.go) and the marker the plans use for the version     *)
(* argument.                                                               *)
(***************************************************************************)
TypeField == "TypeField"
RelForeignKey == "RelForeignKey"
RelOneToOne == "RelOneToOne"
RelManyToMany == "RelManyToMany"
RelReverseOne == "RelReverseOne"
RelReverseMany == "RelReverseMany"
versFieldConst == "[gorp_ver_field]"

\* every enumeration of the finite set S: the orders a range over a map with
\* key set S may take
Orders(S) ==
    {s \in [1..Cardinality(S) -> S] : \A i, j \in 1..Cardinality(S) : i # j => s[i] # s[j]}

(***************************************************************************)
(* The pieces of a generated SQL text.                                     *)
(***************************************************************************)
Lit(str) == [k |-> "lit", v |-> str, i |-> -1]
QuoteField(column) == [k |-> "field", v |-> column, i |-> -1]
QuotedTableForQuery(schema, table) == [k |-> "table", v |-> table, i |-> -1]
BindVar(x) == [k |-> "bind", v |-> "?", i |-> x]
AutoIncrInsertSuffix(column) == [k |-> "autoIncrSuffix", v |-> column, i |-> -1]
QuerySuffix == [k |-> "lit", v |-> ";", i |-> -1]
AutoIncrBindValues == {"", "null"}

(***************************************************************************)
(* fieldInfo and the structs registered for the bind-plan specifications.  *)
(***************************************************************************)
newFieldInfo(name, column, fieldType, auto, pk) ==
    [name |-> name, column |-> column, fieldType |-> fieldType, auto |-> auto,
     pk |-> pk, transient |-> FALSE, DefaultValue |-> ""]

\* type User struct { Id int `orm:"pk;auto"`; Name string; Email string;
\*                    Groups []*Group `orm:"rel(m2m)"`; Posts []*Post `orm:"reverse(many)"` }
UserFields ==
    << newFieldInfo("Id", "id", TypeField, TRUE, TRUE),
       newFieldInfo("Name", "name", TypeField, FALSE, FALSE),
       newFieldInfo("Email", "email", TypeField, FALSE, FALSE),
       newFieldInfo("Groups", "groups", RelManyToMany, FALSE, FALSE),
       newFieldInfo("Posts", "posts", RelReverseMany, FALSE, FALSE) >>

\* type Member struct { Id int `orm:"pk;auto"`;
\*                      Groups []*Group `orm:"rel(m2m)"`; Roles []*Role `orm:"rel(m2m)"` }
MemberFields ==
    << newFieldInfo("Id", "id", TypeField, TRUE, TRUE),
       newFieldInfo("Groups", "groups", RelManyToMany, FALSE, FALSE),
       newFieldInfo("Roles", "roles", RelManyToMany, FALSE, FALSE) >>

\* type Doc struct { Id int `orm:"pk"`; Code int `orm:"pk"`; Ver int64 }
DocFields ==
    << newFieldInfo("Id", "id", TypeField, FALSE, TRUE),
       newFieldInfo("Code", "code", TypeField, FALSE, TRUE),
       newFieldInfo("Ver", "ver", TypeField, FALSE, FALSE) >>

\* type Group struct { Gid int `orm:"pk"` }
GroupFields == << newFieldInfo("Gid", "gid", TypeField, FALSE, TRUE) >>

\* type Role struct { Rid int `orm:"pk"` }
RoleFields == << newFieldInfo("Rid", "rid", TypeField, FALSE, TRUE) >>

\* type Tag struct { Tid int `orm:"pk"` }
TagFields == << newFieldInfo("Tid", "tid", TypeField, FALSE, TRUE) >>

\* type Team struct { Id int `orm:"pk;auto"`; Tags []*Tag `orm:"rel(m2m)"` }
TeamFields ==
    << newFieldInfo("Id", "id", TypeField, TRUE, TRUE),
       newFieldInfo("Tags", "tags", RelManyToMany, FALSE, FALSE) >>

\* type Author struct { Id int `orm:"pk;auto"`; Books []*Book `orm:"rel(m2m)"` }
AuthorFields ==
    << newFieldInfo("Id", "id", TypeField, TRUE, TRUE),
       newFieldInfo("Books", "books", RelManyToMany, FALSE, FALSE) >>

\* type Book struct { Id int `orm:"pk"` }
BookFields == << newFieldInfo("Id", "id", TypeField, FALSE, TRUE) >>

\* type Label struct { Lid int `orm:"pk"` }
\* func (*Label) TableName() string { return "tag" }
LabelFields == << newFieldInfo("Lid", "lid", TypeField, FALSE, TRUE) >>

\* type Pair struct { Pid int `orm:"pk"` }
\* func (*Pair) TableName() string { return "team_tag" }
PairFields == << newFieldInfo("Pid", "pid", TypeField, FALSE, TRUE) >>

\* type TeamTag struct { Ttid int `orm:"pk"` }
\* func (*TeamTag) TableName() string { return "tt" }
TeamTagFields == << newFieldInfo("Ttid", "ttid", TypeField, FALSE, TRUE) >>

\* type Page struct { Id int `orm:"pk"`; Title string `orm:"column(headline)"` }
PageFields ==
    << newFieldInfo("Id", "id", TypeField, FALSE, TRUE),
       newFieldInfo("Title", "headline", TypeField, FALSE, FALSE) >>

\* type Wiki struct { Id int `orm:"pk"`; Note string }
WikiFields ==
    << newFieldInfo("Id", "id", TypeField, FALSE, TRUE),
       newFieldInfo("Note", "note", TypeField, FALSE, FALSE) >>

\* type Note struct { Id int `orm:"pk"`; Wiki *Wiki `orm:"rel(fk)"` }
NoteFields ==
    << newFieldInfo("Id", "id", TypeField, FALSE, TRUE),
       newFieldInfo("Wiki", "wiki_id", RelForeignKey, FALSE, FALSE) >>

\* type Full struct { Id int `orm:"pk"`; Memo, Memo0, Memo1, Memo2, Memo3, Memo4 string }
FullFields ==
    << newFieldInfo("Id", "id", TypeField, FALSE, TRUE),
       newFieldInfo("Memo", "memo", TypeField, FALSE, FALSE),
       newFieldInfo("Memo0", "memo0", TypeField, FALSE, FALSE),
       newFieldInfo("Memo1", "memo1", TypeField, FALSE, FALSE),
       newFieldInfo("Memo2", "memo2", TypeField, FALSE, FALSE),
       newFieldInfo("Memo3", "memo3", TypeField, FALSE, FALSE),
       newFieldInfo("Memo4", "memo4", TypeField, FALSE, FALSE) >>

\* type Memo struct { Id int `orm:"pk"`; Full *Full `orm:"rel(one)"` }
MemoFields ==
    << newFieldInfo("Id", "id", TypeField, FALSE, TRUE),
       newFieldInfo("Full", "full_id", RelOneToOne, FALSE, FALSE) >>

\* type Blog struct { Id int `orm:"pk"`; Posts []*Post `orm:"reverse(many)"`;
\*                    Edits []*Post `orm:"reverse(many)"` }
BlogFields ==
    << newFieldInfo("Id", "id", TypeField, FALSE, TRUE),
       newFieldInfo("Posts", "posts", RelReverseMany, FALSE, FALSE),
       newFieldInfo("Edits", "edits", RelReverseMany, FALSE, FALSE) >>

\* type Post struct { Id int `orm:"pk"`; Author *Blog `orm:"rel(fk)"`;
\*                    Editor *Blog `orm:"rel(fk)"` }
PostFields ==
    << newFieldInfo("Id", "id", TypeField, FALSE, TRUE),
       newFieldInfo("Author", "author_id", RelForeignKey, FALSE, FALSE),
       newFieldInfo("Editor", "editor_id", RelForeignKey, FALSE, FALSE) >>

\* type Desk struct { Id int `orm:"pk"` }
DeskFields == << newFieldInfo("Id", "id", TypeField, FALSE, TRUE) >>

\* type Card struct { Id int `orm:"pk"`; Desk *Desk `orm:"rel(one)"` }
CardFields ==
    << newFieldInfo("Id", "id", TypeField, FALSE, TRUE),
       newFieldInfo("Desk", "desk_id", RelOneToOne, FALSE, FALSE) >>

\* type Link struct { Id int `orm:"pk"`; From *Desk `orm:"rel(fk)"`;
\*                    To *Desk `orm:"rel(fk)"` }
LinkFields ==
    << newFieldInfo("Id", "id", TypeField, FALSE, TRUE),
       newFieldInfo("From", "from_id", RelForeignKey, FALSE, FALSE),
       newFieldInfo("To", "to_id", RelForeignKey, FALSE, FALSE) >>

StructFields(name) ==
    CASE name = "User" -> UserFields
      [] name = "Wiki" -> WikiFields
      [] name = "Note" -> NoteFields
      [] name = "Full" -> FullFields
      [] name = "Memo" -> MemoFields
      [] name = "Blog" -> BlogFields
      [] name = "Post" -> PostFields
      [] name = "Desk" -> DeskFields
      [] name = "Card" -> CardFields
      [] name = "Link" -> LinkFields
      [] name = "Page" -> PageFields
      [] name = "Author" -> AuthorFields
      [] name = "Book" -> BookFields
      [] name = "Label" -> LabelFields
      [] name = "Pair" -> PairFields
      [] name = "TeamTag" -> TeamTagFields
      [] name = "Member" -> MemberFields
      [] name = "Doc" -> DocFields
      [] name = "Group" -> GroupFields
      [] name = "Role" -> RoleFields
      [] name = "Tag" -> TagFields
      [] name = "Team" -> TeamFields

\* the strings the model needs of snakeString, camelString and of joining two
\* table names with "_"
snakeString(str) ==
    CASE str = "User" -> "user"
      [] str = "Doc" -> "doc"
      [] str = "Group" -> "group"
      [] str = "Role" -> "role"
      [] str = "Tag" -> "tag"
      [] str = "Team" -> "team"
      [] str = "TeamTag" -> "team_tag"
      [] str = "Member" -> "member"
      [] str = "MemberGroup" -> "member_group"
      [] str = "MemberRole" -> "member_role"
      [] str = "Author" -> "author"
      [] str = "Book" -> "book"
      [] str = "Page" -> "page"
      [] str = "Wiki" -> "wiki"
      [] str = "Note" -> "note"
      [] str = "Full" -> "full"
      [] str = "Memo" -> "memo"
      [] str = "Blog" -> "blog"
      [] str = "Post" -> "post"
      [] str = "Desk" -> "desk"
      [] str = "Card" -> "card"
      [] str = "Link" -> "link"

camelString(str) ==
    CASE str = "user" -> "User"
      [] str = "doc" -> "Doc"
      [] str = "group" -> "Group"
      [] str = "role" -> "Role"
      [] str = "tag" -> "Tag"
      [] str = "team" -> "Team"
      [] str = "team_tag" -> "TeamTag"
      [] str = "member" -> "Member"
      [] str = "member_group" -> "MemberGroup"
      [] str = "member_role" -> "MemberRole"
      [] str = "author" -> "Author"
      [] str = "book" -> "Book"
      [] str = "author_book" -> "AuthorBook"

Underscored(t1, t2) ==
    CASE t1 = "member" /\ t2 = "group" -> "member_group"
      [] t1 = "member" /\ t2 = "role" -> "member_role"
      [] t1 = "team" /\ t2 = "tag" -> "team_tag"
      [] t1 = "author" /\ t2 = "book" -> "author_book"

\* getTableName: the result of the struct's TableName method when it has one,
\* else snakeString of the struct's name
getTableName(name) ==
    CASE name = "Label" -> "tag"
      [] name = "Pair" -> "team_tag"
      [] name = "TeamTag" -> "tt"
      [] OTHER -> snakeString(name)

\* the zero value bindPlan{}
ZeroPlan ==
    [once |-> FALSE, query |-> <<>>, argFields |-> <<>>, keyFields |-> <<>>,
     versField |-> "", autoIncrIdx |-> 0, autoIncrFieldName |-> "",
     paramValues |-> <<>>]

PlanNames == {"insertPlan", "updatePlan", "deletePlan", "getPlan",
              "m2mInsertPlan", "m2mQueryPlan"}

\* newFields() inside a fresh modelInfo
emptyModelInfo(name, table) ==
    [name |-> name, table |-> table, schemaName |-> "",
     info |-> <<>>, columns |-> <<>>, keys |-> <<>>,
     version |-> "", indexes |-> {}, uniqueTogether |-> <<>>,
     plans |-> [p \in PlanNames |-> ZeroPlan]]

\* fields.Add: whether fi is taken, and the fields after the call
fieldsAdds(t, fi) == fi.name \notin DOMAIN t.info /\ fi.column \notin DOMAIN t.columns
fieldsAdd(t, fi) ==
    IF fieldsAdds(t, fi)
    THEN [t EXCEPT
             !.info = [f \in DOMAIN @ \cup {fi.name} |->
                         IF f = fi.name THEN fi ELSE @[f]],
             !.columns = [c \in DOMAIN @ \cup {fi.column} |->
                         IF c = fi.column THEN fi.name ELSE @[c]]]
    ELSE t

\* t.fields.keys[k] = the field named name
keysPut(t, k, name) ==
    [t EXCEPT !.keys = [x \in DOMAIN @ \cup {k} |-> IF x = k THEN name ELSE @[x]]]

RECURSIVE addModelFields(_, _, _)
\* every field is added to the field maps and a field tagged pk is entered in
\* keys under its name (a duplicate column is fatal: the structs have none)
addModelFields(t, sfs, n) ==
    IF n > Len(sfs) THEN t
    ELSE LET fi == sfs[n]
             added == fieldsAdd(t, fi)
         IN  addModelFields(IF fi.pk THEN keysPut(added, fi.name, fi.name) ELSE added,
                            sfs, n + 1)

\* newModelInfo, with the table RegisterModelWithSchema gives it
newModelInfo(name) ==
    addModelFields(emptyModelInfo(name, getTableName(name)), StructFields(name), 1)

RECURSIVE tagKeyOrder(_, _)
tagKeyOrder(sfs, n) ==
    IF n > Len(sfs) THEN <<>>
    ELSE (IF sfs[n].pk THEN <<sfs[n].name>> ELSE <<>>) \o tagKeyOrder(sfs, n + 1)


(***************************************************************************)
(* fields: lookups over the maps of a modelInfo.                           *)
(***************************************************************************)
\* the *fieldInfo the columns map holds under key c
ColumnAt(t, c) == t.info[t.columns[c]]
\* the *fieldInfo the keys map holds under key k
KeyAt(t, k) == t.info[t.keys[k]]

\* fields.GetByIndex: the index-th entry of a range over columns, as a set: empty
\* (nil) when the map has no such position.  Any column can stand at a given
\* position of a range: at is the key of the one this range has at index.
GetByIndex(t, index, at) ==
    IF index >= 0 /\ index < Cardinality(DOMAIN t.columns)
    THEN {ColumnAt(t, at)} ELSE {}

(***************************************************************************)
(* bindInsert: the body run under plan.once.                               *)
(***************************************************************************)
\* a skip test that lets transient columns through
insertSkipsRelations(col) ==
    col.fieldType = RelManyToMany \/ col.fieldType = RelReverseMany
\* the columns an insert leaves out of its column list
insertSkips(col) ==
    col.transient \/ col.fieldType = RelManyToMany \/ col.fieldType = RelReverseMany

insertColumn(t, acc, col) ==
    IF ~(col.auto /\ dialect = "")
    THEN IF insertSkips(col)
         THEN [acc EXCEPT !.x = @ + 1]
         ELSE LET sep == IF acc.first THEN <<>> ELSE <<Lit(",")>>
                  s == acc.s \o sep \o <<QuoteField(col.column)>>
              IN  IF col.auto
                  THEN [acc EXCEPT !.s = s,
                            !.s2 = @ \o sep \o <<Lit(dialect)>>,
                            !.autoIncrIdx = acc.x,
                            !.autoIncrFieldName = col.name,
                            !.first = FALSE, !.x = @ + 1]
                  ELSE IF col.DefaultValue = ""
                  THEN [acc EXCEPT !.s = s,
                            !.s2 = @ \o sep \o <<BindVar(acc.x)>>,
                            !.versField = IF col.name = t.version THEN col.name ELSE @,
                            !.argFields = Append(@, IF col.name = t.version
                                                    THEN versFieldConst ELSE col.name),
                            !.first = FALSE, !.x = @ + 2]
                  ELSE [acc EXCEPT !.s = s,
                            !.s2 = @ \o sep \o <<Lit(col.DefaultValue)>>,
                            !.first = FALSE, !.x = @ + 1]
    ELSE [acc EXCEPT !.autoIncrIdx = acc.x, !.autoIncrFieldName = col.name,
                     !.x = @ + 1]

RECURSIVE insertColumns(_, _, _, _)
insertColumns(t, acc, ord, n) ==
    IF n > Len(ord) THEN acc
    ELSE insertColumns(t, insertColumn(t, acc, ColumnAt(t, ord[n])), ord, n + 1)

\* ord: the order of the range over t.fields.columns; at: the key GetByIndex
\* finds at the position it is asked for
insertPlanBody(t, ord, at) ==
    LET acc == insertColumns(t,
                   [s |-> <<Lit("insert into"), QuotedTableForQuery(t.schemaName, t.table),
                            Lit("(")>>,
                    s2 |-> <<>>, x |-> 0, first |-> TRUE, argFields |-> <<>>,
                    versField |-> "", autoIncrIdx |-> -1, autoIncrFieldName |-> ""],
                   ord, 1)
        suffix == IF acc.autoIncrIdx > -1
                  THEN LET got == GetByIndex(t, acc.autoIncrIdx, at)
                       IN  <<AutoIncrInsertSuffix(
                                IF got = {} THEN "" ELSE (CHOOSE c \in got : TRUE).column)>>
                  ELSE <<>>
    IN  [once |-> TRUE,
         query |-> acc.s \o <<Lit(") values (")>> \o acc.s2 \o <<Lit(")")>>
                     \o suffix \o <<QuerySuffix>>,
         argFields |-> acc.argFields, keyFields |-> <<>>,
         versField |-> acc.versField, autoIncrIdx |-> acc.autoIncrIdx,
         autoIncrFieldName |-> acc.autoIncrFieldName, paramValues |-> <<>>]

(***************************************************************************)
(* bindUpdate: the body run under plan.once.  colFilter is the set of      *)
(* field names the caller's predicate accepts.                             *)
(***************************************************************************)
\* a ColumnFilter, or nil
NilFilter == [isNil |-> TRUE, accept |-> {}]
Filter(S) == [isNil |-> FALSE, accept |-> S]
acceptAllFilter(col) == TRUE
colFilterAccepts(colFilter, col) ==
    IF colFilter.isNil THEN acceptAllFilter(col) ELSE col.name \in colFilter.accept

updateColumn(t, colFilter, acc, col) ==
    IF ~col.auto /\ ~col.transient /\ colFilterAccepts(colFilter, col)
    THEN [acc EXCEPT
              !.s = @ \o (IF acc.x > 0 THEN <<Lit(", ")>> ELSE <<>>)
                      \o <<QuoteField(col.column), Lit("="), BindVar(acc.x)>>,
              !.versField = IF col.name = t.version THEN col.name ELSE @,
              !.argFields = Append(@, IF col.name = t.version
                                      THEN versFieldConst ELSE col.name),
              !.x = @ + 1]
    ELSE acc

RECURSIVE updateColumns(_, _, _, _, _)
updateColumns(t, colFilter, acc, ord, n) ==
    IF n > Len(ord) THEN acc
    ELSE updateColumns(t, colFilter,
                       updateColumn(t, colFilter, acc, ColumnAt(t, ord[n])), ord, n + 1)

\* one round of the range over t.fields.keys in bindUpdate
updateKey(acc, col) ==
    [acc EXCEPT
         !.s = @ \o (IF acc.y > 0 THEN <<Lit(" and ")>> ELSE <<>>)
                 \o <<QuoteField(col.column), Lit("="), BindVar(acc.y)>>,
         !.argFields = Append(@, col.name),
         !.keyFields = Append(@, col.name),
         !.y = @ + 1]

RECURSIVE updateKeys(_, _, _, _)
updateKeys(t, acc, kord, n) ==
    IF n > Len(kord) THEN acc
    ELSE updateKeys(t, updateKey(acc, KeyAt(t, kord[n])), kord, n + 1)

\* ord: the order of the range over columns; kord: of the range over keys
updatePlanBody(t, colFilter, ord, kord) ==
    LET set == updateColumns(t, colFilter,
                   [s |-> <<Lit("update"), QuotedTableForQuery(t.schemaName, t.table),
                            Lit("set")>>,
                    x |-> 0, y |-> 0, argFields |-> <<>>, keyFields |-> <<>>,
                    versField |-> ""],
                   ord, 1)
        whr == updateKeys(t, [set EXCEPT !.s = @ \o <<Lit(" where ")>>], kord, 1)
        ver == IF whr.versField # ""
               THEN [whr EXCEPT
                        !.s = @ \o <<Lit(" and "), QuoteField(t.info[t.version].column),
                                     Lit("="), BindVar(whr.x)>>,
                        !.argFields = Append(@, whr.versField)]
               ELSE whr
    IN  [once |-> TRUE, query |-> ver.s \o <<QuerySuffix>>,
         argFields |-> ver.argFields, keyFields |-> ver.keyFields,
         versField |-> ver.versField, autoIncrIdx |-> 0,
         autoIncrFieldName |-> "", paramValues |-> <<>>]

(***************************************************************************)
(* createBindInstance: the plan's field names resolved against elem.  The  *)
(* struct is written when its version is 0, so the struct after the call   *)
(* is returned beside the bind instance.                                   *)
(***************************************************************************)
RECURSIVE bindArgs(_, _, _)
\* st = [elem, args, existingVersion, panic]: the round for plan.argFields[n].
\* FieldByName of a name the struct has no field for is the zero Value, and
\* Interface() panics on it
bindArgs(plan, st, n) ==
    IF n > Len(plan.argFields) THEN st
    ELSE LET k == plan.argFields[n]
             newVer == st.existingVersion + 1
         IN  IF k = versFieldConst
             THEN bindArgs(plan,
                     [st EXCEPT !.args = Append(@, newVer),
                                !.elem = IF st.existingVersion = 0
                                         THEN [@ EXCEPT ![plan.versField] = newVer]
                                         ELSE @],
                     n + 1)
             ELSE IF k \notin DOMAIN st.elem
                  THEN [st EXCEPT !.panic = TRUE]
                  ELSE bindArgs(plan, [st EXCEPT !.args = Append(@, st.elem[k])], n + 1)

createBindInstance(plan, elem) ==
    LET existingVersion == IF plan.versField # "" THEN elem[plan.versField] ELSE 0
        st == bindArgs(plan, [elem |-> elem, args |-> <<>>,
                              existingVersion |-> existingVersion,
                              panic |-> FALSE], 1)
        panic == st.panic \/ \E n \in 1..Len(plan.keyFields) :
                                plan.keyFields[n] \notin DOMAIN st.elem
    IN  [bi |-> [query |-> plan.query,
                 args |-> IF panic THEN <<>> ELSE st.args,
                 keys |-> IF panic THEN <<>>
                          ELSE [n \in 1..Len(plan.keyFields) |-> st.elem[plan.keyFields[n]]],
                 existingVersion |-> existingVersion, versField |-> plan.versField,
                 autoIncrIdx |-> plan.autoIncrIdx,
                 autoIncrFieldName |-> plan.autoIncrFieldName],
         elem |-> st.elem,
         panic |-> panic]

(***************************************************************************)
(* bindDelete and bindGet: the bodies run under plan.once.                 *)
(***************************************************************************)
\* the range over columns in bindDelete only looks for the version column
deleteVersField(t) ==
    IF \E c \in DOMAIN t.columns :
           ~ColumnAt(t, c).transient /\ ColumnAt(t, c).name = t.version
    THEN t.version ELSE ""

deleteKey(acc, k) ==
    [acc EXCEPT
         !.s = @ \o (IF acc.x > 0 THEN <<Lit(" and ")>> ELSE <<>>)
                 \o <<QuoteField(k.column), Lit("="), BindVar(acc.x)>>,
         !.keyFields = Append(@, k.name),
         !.argFields = Append(@, k.name),
         !.x = @ + 1]

RECURSIVE deleteKeys(_, _, _, _)
deleteKeys(t, acc, kord, n) ==
    IF n > Len(kord) THEN acc
    ELSE deleteKeys(t, deleteKey(acc, KeyAt(t, kord[n])), kord, n + 1)

deletePlanBody(t, kord) ==
    LET versField == deleteVersField(t)
        whr == deleteKeys(t,
                   [s |-> <<Lit("delete from"), QuotedTableForQuery(t.schemaName, t.table),
                            Lit(" where ")>>,
                    x |-> 0, argFields |-> <<>>, keyFields |-> <<>>],
                   kord, 1)
        ver == IF versField # ""
               THEN [whr EXCEPT
                        !.s = @ \o <<Lit(" and "), QuoteField(t.info[t.version].column),
                                     Lit("="), BindVar(Len(whr.argFields))>>,
                        !.argFields = Append(@, versField)]
               ELSE whr
    IN  [once |-> TRUE, query |-> ver.s \o <<QuerySuffix>>,
         argFields |-> ver.argFields, keyFields |-> ver.keyFields,
         versField |-> versField, autoIncrIdx |-> 0,
         autoIncrFieldName |-> "", paramValues |-> <<>>]

getColumn(acc, col) ==
    IF ~col.transient
    THEN [acc EXCEPT
              !.s = @ \o (IF acc.x > 0 THEN <<Lit(",")>> ELSE <<>>)
                      \o <<QuoteField(col.column)>>,
              !.argFields = Append(@, col.name),
              !.x = @ + 1]
    ELSE acc

RECURSIVE getColumns(_, _, _, _)
getColumns(t, acc, ord, n) ==
    IF n > Len(ord) THEN acc
    ELSE getColumns(t, getColumn(acc, ColumnAt(t, ord[n])), ord, n + 1)

getKey(acc, col) ==
    [acc EXCEPT
         !.s = @ \o (IF acc.y > 0 THEN <<Lit(" and ")>> ELSE <<>>)
                 \o <<QuoteField(col.column), Lit("="), BindVar(acc.y)>>,
         !.keyFields = Append(@, col.name),
         !.y = @ + 1]

RECURSIVE getKeys(_, _, _, _)
getKeys(t, acc, kord, n) ==
    IF n > Len(kord) THEN acc
    ELSE getKeys(t, getKey(acc, KeyAt(t, kord[n])), kord, n + 1)

getPlanBody(t, ord, kord) ==
    LET sel == getColumns(t,
                   [s |-> <<Lit("select ")>>, x |-> 0, y |-> 0,
                    argFields |-> <<>>, keyFields |-> <<>>],
                   ord, 1)
        whr == getKeys(t,
                   [sel EXCEPT !.s = @ \o <<Lit(" from "),
                                            QuotedTableForQuery(t.schemaName, t.table),
                                            Lit(" where ")>>],
                   kord, 1)
    IN  [once |-> TRUE, query |-> whr.s \o <<QuerySuffix>>,
         argFields |-> whr.argFields, keyFields |-> whr.keyFields,
         versField |-> "", autoIncrIdx |-> 0,
         autoIncrFieldName |-> "", paramValues |-> <<>>]

(***************************************************************************)
(* Many-to-many relations.  newM2MModelInfo builds the junction model of   *)
(* two models that have one key each; bootStrap stores it, with the target *)
(* model, in the relation field.                                           *)
(***************************************************************************)
\* fields.GetOnePrimaryKey: the first entry of a range over keys, as a set
GetOnePrimaryKey(t, kord) ==
    IF Len(kord) > 0 THEN {KeyAt(t, kord[1])} ELSE {}

\* the only key of a model that has exactly one
OnlyKey(t) == KeyAt(t, CHOOSE k \in DOMAIN t.keys : TRUE)

newM2MModelInfo(m1, m2) ==
    LET table == Underscored(m1.table, m2.table)
        f1 == newFieldInfo(camelString(m1.table), OnlyKey(m1).column,
                           RelForeignKey, FALSE, FALSE)
        f2 == newFieldInfo(camelString(m2.table), OnlyKey(m2).column,
                           RelForeignKey, FALSE, FALSE)
        added == fieldsAdd(fieldsAdd(emptyModelInfo(camelString(table), table), f1), f2)
    IN  keysPut(keysPut(added, f1.name, f1.name), f2.name, f2.name)

\* the struct a relation field points at: the element type of the slice or
\* of the pointer it is declared with
relElem(field) ==
    CASE field = "Groups" -> "Group"
      [] field \in {"Wiki", "Full", "Desk"} -> field
      [] field \in {"Posts", "Edits"} -> "Post"
      [] field \in {"Author", "Editor"} -> "Blog"
      [] field \in {"From", "To"} -> "Desk"
      [] field = "Roles" -> "Role"
      [] field = "Tags" -> "Tag"
      [] field = "Books" -> "Book"
\* fi.relModelInfo and fi.relThroughModelInfo as bootStrap set them for a
\* many-to-many field of the struct t was registered for: the junction model
\* is built from the two models as they were registered
relModelInfo(field) == newModelInfo(relElem(field))
relThroughModelInfo(t, field) ==
    newM2MModelInfo(newModelInfo(t.name), relModelInfo(field))

\* bootStrap, second stage: the reverse field a relation of the model named
\* name adds to the model rmi it points at, when rmi declares none for it
\* (the structs declare none, and the name is free in each of them: Add takes
\* it at the first try)
addReverseField(rmi, name) ==
    fieldsAdd(rmi, newFieldInfo(name, name, RelReverseMany, FALSE, FALSE))

RECURSIVE addThroughReverses(_, _, _)
\* the reverse fields the junction models of t's many-to-many fields add to t
addThroughReverses(t, sfs, n) ==
    IF n > Len(sfs) THEN t
    ELSE addThroughReverses(
             IF sfs[n].fieldType = RelManyToMany
             THEN addReverseField(t, relThroughModelInfo(t, sfs[n].name).name)
             ELSE t,
             sfs, n + 1)

\* the modelInfo of a registered struct after BootStrap
bootStrapped(name) == addThroughReverses(newModelInfo(name), StructFields(name), 1)

\* getFieldValue: the value of a struct's field, 0 (nil) when it has none
getFieldValue(m, field) == IF field \in DOMAIN m THEN m[field] ELSE 0

(***************************************************************************)
(* bindM2MInsert: the body run under plan.once.                            *)
(***************************************************************************)
\* one column of the junction model in the round for one element of args
m2mInsertColumn(t, through, mPK, fPK, reveseKeyValue, av, loop, acc, col) ==
    IF ~(col.auto /\ dialect = "")
    THEN IF insertSkips(col)
         THEN [acc EXCEPT !.x = @ + 1]
         ELSE LET sep == IF acc.x > 0 THEN <<Lit(",")>> ELSE <<>>
                  isVersion == through.name = t.name /\ col.name = t.version
                  a1 == [acc EXCEPT !.s2 = @ \o sep,
                                    !.s3 = @ \o sep \o <<QuoteField(col.column)>>]
                  a2 == IF col.auto
                        THEN [a1 EXCEPT !.s2 = @ \o <<Lit(dialect)>>,
                                        !.autoIncrIdx = acc.x,
                                        !.autoIncrFieldName = col.column]
                        ELSE IF col.DefaultValue = ""
                        THEN [a1 EXCEPT
                                 !.s2 = @ \o <<BindVar(acc.x)>>,
                                 !.versField = IF isVersion THEN col.name ELSE @,
                                 !.argFields =
                                     IF loop = 0
                                     THEN Append(@, IF isVersion THEN versFieldConst
                                                    ELSE col.column)
                                     ELSE @,
                                 !.x = @ + 1]
                        ELSE [a1 EXCEPT !.s2 = @ \o <<Lit(col.DefaultValue)>>]
              IN  [a2 EXCEPT
                      !.paramValues = Append(@, IF mPK.column = col.column
                                                THEN reveseKeyValue
                                                ELSE getFieldValue(av, fPK.name)),
                      !.x = @ + 1]
    ELSE [acc EXCEPT !.autoIncrIdx = acc.x, !.autoIncrFieldName = col.name,
                     !.x = @ + 1]

RECURSIVE m2mInsertColumns(_, _, _, _, _, _, _, _, _, _)
m2mInsertColumns(t, through, mPK, fPK, reveseKeyValue, av, loop, acc, ord, n) ==
    IF n > Len(ord) THEN acc
    ELSE m2mInsertColumns(t, through, mPK, fPK, reveseKeyValue, av, loop,
             m2mInsertColumn(t, through, mPK, fPK, reveseKeyValue, av, loop, acc,
                             ColumnAt(through, ord[n])),
             ord, n + 1)

RECURSIVE m2mInsertRows(_, _, _, _, _, _, _, _, _)
\* the range over args; ords[loop + 1] is the order of that round's range over
\* the junction model's columns
m2mInsertRows(t, through, mPK, fPK, reveseKeyValue, args, ords, acc, loop) ==
    IF loop >= Len(args) THEN acc
    ELSE LET opened == IF loop = 0 THEN [acc EXCEPT !.s = @ \o <<Lit("(")>>] ELSE acc
             row == m2mInsertColumns(t, through, mPK, fPK, reveseKeyValue,
                        args[loop + 1], loop,
                        [opened EXCEPT !.x = 0, !.s2 = <<>>, !.s3 = <<>>],
                        ords[loop + 1], 1)
             closed == IF loop = 0
                       THEN [row EXCEPT !.s = @ \o row.s3 \o <<Lit(") values (")>>
                                                \o row.s2 \o <<Lit(")")>>]
                       ELSE [row EXCEPT !.s = @ \o <<Lit(", (")>> \o row.s2 \o <<Lit(")")>>]
         IN  m2mInsertRows(t, through, mPK, fPK, reveseKeyValue, args, ords, closed,
                           loop + 1)

\* kord: the order of the range inside t.fields.GetOnePrimaryKey; ords: one
\* order of the junction model's columns for every element of args; at: the
\* key GetByIndex finds at the position it is asked for
m2mInsertPlanBody(t, elem, field, args, kord, ords, at) ==
    LET relThrough == relThroughModelInfo(t, field)
        rel == relModelInfo(field)
        mPK == CHOOSE k \in GetOnePrimaryKey(t, kord) : TRUE
        fPK == OnlyKey(rel)
        acc == m2mInsertRows(t, relThrough, mPK, fPK, getFieldValue(elem, mPK.name),
                   args, ords,
                   [s |-> <<Lit("insert into"),
                            QuotedTableForQuery(t.schemaName, relThrough.table)>>,
                    s2 |-> <<>>, s3 |-> <<>>, x |-> 0, argFields |-> <<>>,
                    versField |-> "", autoIncrIdx |-> -1, autoIncrFieldName |-> "",
                    paramValues |-> <<>>],
                   0)
        suffix == IF acc.autoIncrIdx > -1
                  THEN LET got == GetByIndex(t, acc.autoIncrIdx, at)
                       IN  <<AutoIncrInsertSuffix(
                                IF got = {} THEN "" ELSE (CHOOSE c \in got : TRUE).column)>>
                  ELSE <<>>
    IN  [once |-> TRUE, query |-> acc.s \o suffix \o <<QuerySuffix>>,
         argFields |-> acc.argFields, keyFields |-> <<>>,
         versField |-> acc.versField, autoIncrIdx |-> acc.autoIncrIdx,
         autoIncrFieldName |-> acc.autoIncrFieldName,
         paramValues |-> acc.paramValues]

(***************************************************************************)
(* bindM2MQuery: the body run under plan.once.                             *)
(***************************************************************************)
m2mQueryPlanBody(t, elem, field, kord) ==
    LET pk == CHOOSE k \in GetOnePrimaryKey(t, kord) : TRUE
        relThrough == relThroughModelInfo(t, field)
        rel == relModelInfo(field)
        joinColumn == OnlyKey(rel).column
        targetTable == QuotedTableForQuery(rel.schemaName, rel.table)
        joinTable == QuotedTableForQuery(relThrough.schemaName, relThrough.table)
    IN  [once |-> TRUE,
         query |-> <<Lit("select"), targetTable, Lit(".* from"), targetTable,
                     Lit("left join"), joinTable, Lit("on"),
                     targetTable, Lit("."), QuoteField(joinColumn), Lit("="),
                     joinTable, Lit("."), QuoteField(joinColumn),
                     Lit("where"), joinTable, Lit("."), QuoteField(pk.column),
                     Lit("= ?"), QuerySuffix>>,
         argFields |-> <<>>, keyFields |-> <<>>, versField |-> "",
         autoIncrIdx |-> -1, autoIncrFieldName |-> "",
         paramValues |-> <<getFieldValue(elem, pk.name)>>]

\* createM2MBindInstance: the values the plan holds, as they are
createM2MBindInstance(plan) ==
    [query |-> plan.query, args |-> plan.paramValues, keys |-> <<>>,
     existingVersion |-> 0, versField |-> plan.versField,
     autoIncrIdx |-> plan.autoIncrIdx, autoIncrFieldName |-> plan.autoIncrFieldName]

(***************************************************************************)
(* The metadata operations of a modelInfo (model.go).                      *)
(***************************************************************************)
\* a ResetSql that leaves the update plan as it is
ResetSqlKeepsUpdate(t) ==
    [t EXCEPT !.plans = [p \in PlanNames |->
                            IF p = "updatePlan" THEN t.plans[p] ELSE ZeroPlan]]
ResetSql(t) == [t EXCEPT !.plans = [p \in PlanNames |-> ZeroPlan]]

\* colMapOrNil: the fields a name or a column name designates
colMapOrNil(t, field) ==
    {c \in DOMAIN t.columns : ColumnAt(t, c).name = field \/ ColumnAt(t, c).column = field}

\* ColMap does not panic
ColMapFinds(t, field) == colMapOrNil(t, field) # {}
ColMap(t, field) == ColumnAt(t, CHOOSE c \in colMapOrNil(t, field) : TRUE)

RECURSIVE setKeysLoop(_, _, _, _)
setKeysLoop(t, isAutoIncr, fieldNames, n) ==
    IF n > Len(fieldNames) THEN t
    ELSE LET name == fieldNames[n]
             colmap == ColMap(t, name)
             marked == [t EXCEPT !.info[colmap.name].pk = TRUE,
                                 !.info[colmap.name].auto = isAutoIncr]
         IN  setKeysLoop(keysPut(marked, name, colmap.name), isAutoIncr, fieldNames, n + 1)

SetKeys(t, isAutoIncr, fieldNames) ==
    ResetSql(setKeysLoop(t, isAutoIncr, fieldNames, 1))

SetUniqueTogether(t, fieldNames) ==
    ResetSql([t EXCEPT !.uniqueTogether = Append(@, fieldNames)])

\* AddIndex returns the index already mapped under the name, if any
AddIndex(t, name) ==
    IF name \in t.indexes THEN t
    ELSE ResetSql([t EXCEPT !.indexes = @ \cup {name}])

SetVersionCol(t, field) ==
    ResetSql([t EXCEPT !.version = ColMap(t, field).name])

SetTransient(t, field, b) == [t EXCEPT !.info[field].transient = b]

\* fieldInfo.Rename on the fieldInfo of field: its column is set, the maps of
\* the model and its plans are not touched
Rename(t, field, colname) == [t EXCEPT !.info[field].column = colname]

(***************************************************************************)
(* Inputs of the bind-plan specifications.  Each specification registers   *)
(* one struct and calls a part of the operations on its modelInfo.         *)
(***************************************************************************)
\* the struct values passed as elem
Elems(name) ==
    CASE name = "User" -> {[Id |-> id, Name |-> 7, Email |-> 6, Groups |-> 8, Posts |-> 9] : id \in {1, 2}}
      [] name = "Member" -> {[Id |-> id, Groups |-> 8, Roles |-> 9] : id \in {1, 2}}
      [] name = "Doc" -> {[Id |-> 11, Code |-> 12, Ver |-> v] : v \in 0..MaxVersion}
      [] name = "Team" -> {[Id |-> 1, Tags |-> 9]}

\* the related entities passed to bindM2MInsert: values of the target struct
Targets(name, field) ==
    CASE name = "Member" /\ field = "Groups" -> {[Gid |-> id] : id \in {3, 4}}
      [] name = "Member" /\ field = "Roles" -> {[Rid |-> id] : id \in {3, 4}}
      [] name = "Team" -> {[Tid |-> 3]}
\* up to MaxTargets of them for Member, one for Team
TargetLists(name, field) ==
    UNION {[1..n -> Targets(name, field)] :
              n \in 1..(IF name = "Team" THEN 1 ELSE MaxTargets)}
M2MFields(name) ==
    CASE name = "Member" -> {"Groups", "Roles"}
      [] name = "Team" -> {"Tags"}

\* the column filters passed to bindUpdate
ColFilters(name) ==
    IF name = "Doc" THEN {NilFilter, Filter({"Code"}), Filter({"Code", "Ver"})}
    ELSE {NilFilter, Filter({"Tags"})}

\* the arguments of SetKeys, SetVersionCol and SetTransient
SetKeysArgs(name) ==
    CASE name = "User" -> {<<"Id">>, <<"Name">>}
      [] name = "Doc" -> {<<"Id">>, <<"Code", "Id">>, <<"Ver">>}
      [] name = "Team" -> {<<"Id">>}
VersionCols(name) == IF name = "User" THEN {} ELSE IF name = "Doc" THEN {"Ver"} ELSE {"Id"}
TransientCols(name) ==
    CASE name = "User" -> {"Name"}
      [] name = "Doc" -> {"Code", "Ver"}
      [] name = "Team" -> {"Tags"}
UniqueArgs(name) ==
    CASE name = "User" -> <<"Id", "Name">>
      [] name = "Doc" -> <<"Id", "Code">>
      [] name = "Team" -> <<"Id", "Tags">>
IndexNames == {"idx_a"}

NoCall ==
    [op |-> "", elem |-> <<>>, colFilter |-> NilFilter, field |-> "", args |-> <<>>,
     bi |-> createM2MBindInstance(ZeroPlan), elemAfter |-> <<>>,
     generated |-> FALSE, changed |-> FALSE, cached |-> {}, panic |-> FALSE]

\* the orders a call through plan p draws for its ranges: none when the plan
\* is cached and its body does not run
ColumnOrders(p) == IF mi.plans[p].once THEN {<<>>} ELSE Orders(DOMAIN mi.columns)
KeyOrders(p) == IF mi.plans[p].once THEN {<<>>} ELSE Orders(DOMAIN mi.keys)
ColumnPicks(p) == IF mi.plans[p].once THEN {""} ELSE DOMAIN mi.columns

\* the state after the struct was registered and the models were bootstrapped
\* the goroutines, and one that is making no call
Threads == 1..MaxThreads
Idle == [at |-> "idle", path |-> "", body |-> ZeroPlan, seen |-> ZeroPlan,
         bi |-> NoCall.bi, models |-> <<>>]
\* the package variable database before any call: nil.  cur is the singleton
\* it points to (0 for nil), objs the dbmap of every singleton made (0 for
\* nil); sets and last are history: the number of Set calls that returned
\* and the handle the last of them was given
nilDatabase == [cur |-> 0, objs |-> <<>>, sets |-> 0, last |-> 0]
\* modelCache as the package initialises it
emptyCache == [orders |-> <<>>, cache |-> <<>>, cacheByFullName |-> <<>>, done |-> FALSE]

Started(t) ==
    /\ mi = t
    /\ keyOrder = tagKeyOrder(StructFields(t.name), 1)
    /\ dialect \in AutoIncrBindValues
    /\ result = NoCall
    /\ calls = 0
    /\ pc = [t1 \in Threads |-> Idle]
    /\ lock = 0
    /\ runs = 0
    /\ modelCache = emptyCache
    /\ halted = FALSE
    /\ database = nilDatabase

\* a struct that was registered, and one whose relations BootStrap resolved
Registered(name) == Started(newModelInfo(name))
Resolved(name) == Started(bootStrapped(name))

\* runs on Team are cut after MaxCalls calls
Counted ==
    IF mi.name = "Team"
    THEN calls < MaxCalls /\ calls' = calls + 1
    ELSE UNCHANGED calls

\* the model after a call through plan p
Planned(p, plan) ==
    /\ Counted
    /\ mi' = [mi EXCEPT !.plans[p] = plan]
    /\ UNCHANGED <<dialect, keyOrder>>
    /\ UNCHANGED threadVars

\* a bind call through plan p: body is the plan a first call generates
Bound(p, body, call) ==
    LET plan == IF mi.plans[p].once THEN mi.plans[p] ELSE body
        inst == createBindInstance(plan, call.elem)
    IN  /\ Planned(p, plan)
        /\ result' = [call EXCEPT !.bi = IF inst.panic THEN NoCall.bi ELSE inst.bi,
                                  !.elemAfter = inst.elem,
                                  !.panic = inst.panic,
                                  !.generated = ~mi.plans[p].once]

\* the same for the many-to-many plans
BoundM2M(p, body, call) ==
    LET plan == IF mi.plans[p].once THEN mi.plans[p] ELSE body
    IN  /\ Planned(p, plan)
        /\ result' = [call EXCEPT !.bi = createM2MBindInstance(plan),
                                  !.elemAfter = call.elem,
                                  !.generated = ~mi.plans[p].once]

BindInsert ==
    \E elem \in Elems(mi.name), ord \in ColumnOrders("insertPlan"),
       at \in ColumnPicks("insertPlan") :
        Bound("insertPlan", insertPlanBody(mi, ord, at),
              [NoCall EXCEPT !.op = "insert", !.elem = elem])

BindUpdate ==
    \E elem \in Elems(mi.name), colFilter \in ColFilters(mi.name),
       ord \in ColumnOrders("updatePlan"), kord \in KeyOrders("updatePlan") :
        Bound("updatePlan", updatePlanBody(mi, colFilter, ord, kord),
              [NoCall EXCEPT !.op = "update", !.elem = elem, !.colFilter = colFilter])

BindDelete ==
    \E elem \in Elems(mi.name), kord \in KeyOrders("deletePlan") :
        Bound("deletePlan", deletePlanBody(mi, kord),
              [NoCall EXCEPT !.op = "delete", !.elem = elem])

\* bindGet returns the plan itself
BindGet ==
    \E ord \in ColumnOrders("getPlan"), kord \in KeyOrders("getPlan") :
        /\ Planned("getPlan", IF mi.plans.getPlan.once THEN mi.plans.getPlan
                              ELSE getPlanBody(mi, ord, kord))
        /\ result' = [NoCall EXCEPT !.op = "get",
                                    !.generated = ~mi.plans.getPlan.once]

\* the orders of the ranges over the junction model's columns, one for each
\* element of args
ThroughOrders(p, field, args) ==
    IF mi.plans[p].once THEN {<<>>}
    ELSE [1..Len(args) -> Orders(DOMAIN relThroughModelInfo(mi, field).columns)]

BindM2MInsert ==
    \E elem \in Elems(mi.name), field \in M2MFields(mi.name) :
      \E args \in TargetLists(mi.name, field), kord \in KeyOrders("m2mInsertPlan"),
         at \in ColumnPicks("m2mInsertPlan") :
        \E ords \in ThroughOrders("m2mInsertPlan", field, args) :
            BoundM2M("m2mInsertPlan",
                     m2mInsertPlanBody(mi, elem, field, args, kord, ords, at),
                     [NoCall EXCEPT !.op = "m2mInsert", !.elem = elem,
                                    !.field = field, !.args = args])

BindM2MQuery ==
    \E elem \in Elems(mi.name), field \in M2MFields(mi.name),
       kord \in KeyOrders("m2mQueryPlan") :
        BoundM2M("m2mQueryPlan", m2mQueryPlanBody(mi, elem, field, kord),
                 [NoCall EXCEPT !.op = "m2mQuery", !.elem = elem, !.field = field])

\* a metadata call that leaves the model as t
Changed(op, t) ==
    /\ Counted
    /\ mi' = t
    /\ result' = [NoCall EXCEPT !.op = op,
                                !.changed = [t EXCEPT !.plans = mi.plans] # mi,
                                !.cached = {p \in PlanNames : mi.plans[p].once}]
    /\ UNCHANGED dialect
    /\ UNCHANGED threadVars

RECURSIVE appendNew(_, _, _)
\* the key names of fieldNames that keys does not hold yet, in call order
appendNew(order, fieldNames, n) ==
    IF n > Len(fieldNames) THEN order
    ELSE appendNew(IF \E i \in 1..Len(order) : order[i] = fieldNames[n]
                   THEN order ELSE Append(order, fieldNames[n]),
                   fieldNames, n + 1)

CallSetKeys ==
    \E isAutoIncr \in BOOLEAN, fieldNames \in SetKeysArgs(mi.name) :
        /\ ~(isAutoIncr /\ Len(fieldNames) # 1)
        /\ \A n \in 1..Len(fieldNames) : ColMapFinds(mi, fieldNames[n])
        /\ Changed("SetKeys", SetKeys(mi, isAutoIncr, fieldNames))
        /\ keyOrder' = appendNew(keyOrder, fieldNames, 1)

CallSetUniqueTogether ==
    /\ Len(UniqueArgs(mi.name)) >= 2
    /\ Changed("SetUniqueTogether", SetUniqueTogether(mi, UniqueArgs(mi.name)))
    /\ UNCHANGED keyOrder

CallAddIndex ==
    \E name \in IndexNames :
        /\ Changed("AddIndex", AddIndex(mi, name))
        /\ UNCHANGED keyOrder

CallSetVersionCol ==
    \E field \in VersionCols(mi.name) :
        /\ ColMapFinds(mi, field)
        /\ Changed("SetVersionCol", SetVersionCol(mi, field))
        /\ UNCHANGED keyOrder

CallSetTransient ==
    \E field \in TransientCols(mi.name), b \in BOOLEAN :
        /\ Changed("SetTransient", SetTransient(mi, field, b))
        /\ UNCHANGED keyOrder

\* the column names given to Rename
ColumnNames == {"id", "code", "ver", "date_updated"}

\* table.ColMap(field).Rename(colname), for a field name
CallRename ==
    \E field \in DOMAIN mi.info, colname \in ColumnNames :
        /\ ColMapFinds(mi, field)
        /\ Changed("Rename", Rename(mi, field, colname))
        /\ UNCHANGED keyOrder

(***************************************************************************)
(* SpecDb: goroutines call Database() and then Set or Get on what it       *)
(* returned.  Database() reads and writes the package variable without any *)
(* lock; Set and Get hold the mutex of their singleton from start to end.  *)
(***************************************************************************)
\* the handles given to Set
Handles == {1, 2}
\* a goroutine between calls: r is the singleton Database() returned to it,
\* got what its last Get returned, since the number of Set calls that had
\* returned when its Database() call began
DbIdle == [at |-> "idle", r |-> 0, got |-> 0, since |-> 0]
\* a goroutine takes a step of its call
DbMoved(t, to) ==
    /\ ~halted
    /\ pc' = [pc EXCEPT ![t] = to]
    /\ UNCHANGED <<mi, dialect, keyOrder, lock, runs, modelCache>>

\* Database(): if database == nil
DbCheck(t) ==
    /\ pc[t].at = "idle"
    /\ calls < MaxCalls
    /\ calls' = calls + 1
    /\ DbMoved(t, [pc[t] EXCEPT !.at = IF database.cur = 0 THEN "new" ELSE "return",
                                !.since = database.sets])
    /\ UNCHANGED <<database, halted, result>>

\* Database(): database = &databaseSingleton{}
DbNew(t) ==
    /\ pc[t].at = "new"
    /\ database' = [database EXCEPT !.objs = Append(@, 0), !.cur = Len(database.objs) + 1]
    /\ DbMoved(t, [pc[t] EXCEPT !.at = "return"])
    /\ UNCHANGED <<calls, halted, result>>

\* Database(): return database
DbReturn(t) ==
    /\ pc[t].at = "return"
    /\ DbMoved(t, [pc[t] EXCEPT !.at = "have", !.r = database.cur])
    /\ UNCHANGED <<calls, database, halted, result>>

\* Set(dbmap) on the singleton the goroutine has
DbSet(t) ==
    /\ pc[t].at = "have"
    /\ \E d \in Handles :
          /\ database' = [database EXCEPT !.objs[pc[t].r] = d, !.sets = @ + 1, !.last = d]
          /\ result' = [op |-> "Set", t |-> t, dbmap |-> d]
    /\ DbMoved(t, [pc[t] EXCEPT !.at = "idle"])
    /\ UNCHANGED <<calls, halted>>

\* Get() on the singleton the goroutine has: a nil dbmap is a panic
DbGet(t) ==
    /\ pc[t].at = "have"
    /\ LET dbmap == database.objs[pc[t].r]
       IN  /\ halted' = (dbmap = 0)
           /\ result' = [op |-> "Get", t |-> t, dbmap |-> dbmap]
           /\ DbMoved(t, [pc[t] EXCEPT !.at = "idle", !.got = dbmap])
    /\ UNCHANGED <<calls, database>>

InitDb ==
    /\ mi = newModelInfo("Doc")
    /\ keyOrder = tagKeyOrder(StructFields("Doc"), 1)
    /\ dialect = ""
    /\ result = [op |-> "", t |-> 0, dbmap |-> 0]
    /\ calls = 0
    /\ pc = [t1 \in Threads |-> DbIdle]
    /\ lock = 0
    /\ runs = 0
    /\ modelCache = emptyCache
    /\ halted = FALSE
    /\ database = nilDatabase
NextDb ==
    \E t \in Threads :
        \/ DbCheck(t)
        \/ DbNew(t)
        \/ DbReturn(t)
        \/ DbSet(t)
        \/ DbGet(t)
SpecDb == InitDb /\ [][NextDb]_vars

(***************************************************************************)
(* SpecRename: columns of Doc are renamed after its registration.          *)
(***************************************************************************)
InitRename == Registered("Doc")
NextRename == CallRename
SpecRename == InitRename /\ [][NextRename]_vars

(***************************************************************************)
(* SpecUpdate: bindUpdate on Doc, between calls that set its keys, its     *)
(* version column and its transient columns.                               *)
(***************************************************************************)
InitUpdate == Registered("Doc")
NextUpdate ==
    \/ BindUpdate
    \/ CallSetKeys
    \/ CallSetVersionCol
    \/ CallSetTransient
SpecUpdate == InitUpdate /\ [][NextUpdate]_vars

(***************************************************************************)
(* SpecInsert: bindInsert on User.                                         *)
(***************************************************************************)
InitInsert == Registered("User")
NextInsert ==
    \/ BindInsert
    \/ CallSetKeys
    \/ CallSetTransient
SpecInsert == InitInsert /\ [][NextInsert]_vars

(***************************************************************************)
(* SpecM2M: the many-to-many binds on Member, after BootStrap.             *)
(***************************************************************************)
InitM2M == Resolved("Member")
NextM2M ==
    \/ BindM2MInsert
    \/ BindM2MQuery
SpecM2M == InitM2M /\ [][NextM2M]_vars

(***************************************************************************)
(* SpecReset: every bind and every metadata call on Team, after BootStrap. *)
(***************************************************************************)
InitReset == Resolved("Team")
NextReset ==
    \/ BindInsert
    \/ BindUpdate
    \/ BindDelete
    \/ BindGet
    \/ BindM2MInsert
    \/ BindM2MQuery
    \/ CallSetKeys
    \/ CallSetUniqueTogether
    \/ CallAddIndex
    \/ CallSetVersionCol
    \/ CallSetTransient
SpecReset == InitReset /\ [][NextReset]_vars

(***************************************************************************)
(* SpecOnce: goroutines making the first bindInsert calls on Doc together. *)
(* plan.once is a sync.Once: Do reads its done flag, and when the flag is  *)
(* not set takes the Once's mutex, reads the flag again and runs the body  *)
(* if it is still not set.  The body fills the plan field by field and     *)
(* writes plan.query last.                                                 *)
(***************************************************************************)
\* what a goroutine does of its call
Moved(t, to) ==
    /\ ~halted
    /\ pc' = [pc EXCEPT ![t] = to]
    /\ UNCHANGED <<dialect, keyOrder, calls, result, database>>

\* a Once whose flag always reads as not set
onceNeverDone(plan) == FALSE
\* the done flag of plan.once
onceDone(plan) == plan.once

\* plan.once.Do: the flag is read without the mutex
OnceDo(t) ==
    /\ pc[t].at = "idle"
    /\ Moved(t, IF onceDone(mi.plans.insertPlan)
                THEN [pc[t] EXCEPT !.at = "bind", !.path = "cached"]
                ELSE [pc[t] EXCEPT !.at = "lock"])
    /\ UNCHANGED <<mi, lock, runs, modelCache, halted>>

OnceLock(t) ==
    /\ pc[t].at = "lock"
    /\ lock = 0
    /\ lock' = t
    /\ Moved(t, [pc[t] EXCEPT !.at = "locked"])
    /\ UNCHANGED <<mi, runs, modelCache, halted>>

\* under the mutex the flag is set: another goroutine ran the body meanwhile
OnceSkip(t) ==
    /\ pc[t].at = "locked"
    /\ onceDone(mi.plans.insertPlan)
    /\ lock' = 0
    /\ Moved(t, [pc[t] EXCEPT !.at = "bind", !.path = "waited"])
    /\ UNCHANGED <<mi, runs, modelCache, halted>>

\* under the mutex the flag is not set: the body starts, with the order its
\* range over the columns takes, and fills the field lists of the plan
OnceBegin(t) ==
    /\ pc[t].at = "locked"
    /\ ~onceDone(mi.plans.insertPlan)
    /\ \E ord \in Orders(DOMAIN mi.columns), at \in DOMAIN mi.columns :
          LET body == insertPlanBody(mi, ord, at)
          IN  /\ mi' = [mi EXCEPT !.plans.insertPlan =
                                     [body EXCEPT !.once = FALSE, !.query = <<>>]]
              /\ Moved(t, [pc[t] EXCEPT !.at = "body", !.body = body])
    /\ runs' = runs + 1
    /\ UNCHANGED <<lock, modelCache, halted>>

\* the body writes plan.query and returns, the flag is set, the mutex is freed
OnceEnd(t) ==
    /\ pc[t].at = "body"
    /\ mi' = [mi EXCEPT !.plans.insertPlan = pc[t].body]
    /\ lock' = 0
    /\ Moved(t, [pc[t] EXCEPT !.at = "bind", !.path = "generated"])
    /\ UNCHANGED <<runs, modelCache, halted>>

\* Do has returned: createBindInstance reads the plan
OnceBind(t) ==
    /\ pc[t].at = "bind"
    /\ \E elem \in Elems(mi.name) :
          Moved(t, [pc[t] EXCEPT !.at = "done", !.seen = mi.plans.insertPlan,
                                 !.bi = createBindInstance(mi.plans.insertPlan, elem).bi])
    /\ UNCHANGED <<mi, lock, runs, modelCache, halted>>

InitOnce == Registered("Doc")
NextOnce ==
    \E t \in Threads :
        \/ OnceDo(t)
        \/ OnceLock(t)
        \/ OnceSkip(t)
        \/ OnceBegin(t)
        \/ OnceEnd(t)
        \/ OnceBind(t)
SpecOnce == InitOnce /\ [][NextOnce]_vars

(***************************************************************************)
(* SpecBoot: RegisterModel calls and goroutines calling BootStrap.  The    *)
(* registry holds, per model, what identifies it; the fields of the        *)
(* registered structs are those of the struct catalog.                     *)
(***************************************************************************)
PkgPath == "models"
\* getFullName: package path and type name
getFullName(name) == <<PkgPath, name>>
\* the structs RegisterModel is called with
RegisterNames == {"Team", "Tag", "Doc"}

\* m[k] = v on a Go map
mapPut(m, k, v) == [x \in DOMAIN m \cup {k} |-> IF x = k THEN v ELSE m[x]]

\* modelCache.set; the model the table was mapped to before is in old (a set:
\* empty for nil)
cacheSet(mc, table, entry) ==
    [mc |-> [mc EXCEPT !.cache = mapPut(@, table, entry),
                       !.cacheByFullName = mapPut(@, entry.fullName, entry),
                       !.orders = IF table \in DOMAIN mc.cache THEN @
                                  ELSE Append(@, table)],
     old |-> IF table \in DOMAIN mc.cache THEN {mc.cache[table]} ELSE {}]

\* the field types newFieldInfo sets fi.rel and fi.reverse for
relTypes == {RelForeignKey, RelOneToOne, RelManyToMany}
reverseTypes == {RelReverseOne, RelReverseMany}

\* the names of the fields of sfs that fields.Add took and whose type is in
\* types
fieldNames(sfs, info, types) ==
    LET kept == SelectSeq(sfs, LAMBDA fi : fi.name \in DOMAIN info /\ info[fi.name] = fi
                                           /\ fi.fieldType \in types)
    IN  [n \in 1..Len(kept) |-> kept[n].name]

\* a *modelInfo as the registry holds it: the identity, the field maps t was
\* built with (sfs are its fields in the order of the Add calls), the slices
\* fieldsRel and fieldsReverse, and per field the pointers bootStrap fills in
\* (a model is pointed at by its table)
modelEntry(t, full, manual, sfs) ==
    [name |-> t.name, fullName |-> full, table |-> t.table,
     manual |-> manual, isThrough |-> FALSE,
     info |-> t.info, columns |-> t.columns, keys |-> t.keys,
     fieldsRel |-> fieldNames(sfs, t.info, relTypes),
     fieldsReverse |-> fieldNames(sfs, t.info, reverseTypes),
     relModelInfo |-> <<>>, relThroughModelInfo |-> <<>>,
     reverseFieldInfo |-> <<>>, reverseFieldInfoTwo |-> <<>>]

\* a registration that checks the full name only
repeatsFullName(mc, full, table) == full \in DOMAIN mc.cacheByFullName
\* the two tests of RegisterModelWithSchema: getByFullName(name), get(table)
repeatRegister(mc, full, table) ==
    full \in DOMAIN mc.cacheByFullName \/ table \in DOMAIN mc.cache

\* RegisterModelWithSchema(model, ""): the model is looked up by its full name
\* and by its table, and os.Exit(2) ends the process if either is taken.  The
\* maps are read and written without the lock: while a goroutine is inside
\* bootStrap the accesses race, and the runtime may end the process for it.
RegisterModel(name) ==
    LET table == getTableName(name)
        full == getFullName(name)
        entry == modelEntry(newModelInfo(name), full, TRUE, StructFields(name))
    IN  /\ ~halted
        /\ \/ /\ repeatRegister(modelCache, full, table)
              /\ halted' = TRUE
              /\ UNCHANGED modelCache
           \/ /\ ~repeatRegister(modelCache, full, table)
              /\ modelCache' = cacheSet(modelCache, table, entry).mc
              /\ UNCHANGED halted
           \/ /\ \E t \in Threads : pc[t].at = "pass"
              /\ halted' = TRUE
              /\ UNCHANGED modelCache
        /\ result' = [NoCall EXCEPT !.op = "RegisterModel", !.field = name]
        /\ UNCHANGED <<database, mi, dialect, keyOrder, calls, pc, lock, runs>>

\* the many-to-many fields of a registered struct (each struct of the catalog
\* has at most one)
m2mFields(name) ==
    SelectSeq(StructFields(name), LAMBDA fi : fi.fieldType = RelManyToMany)
\* the fields of a registered struct with fi.rel or fi.reverse set: those the
\* first stage of bootStrap works on (what it does for one of them does not
\* depend on the others, so the order of the range over the columns is
\* immaterial)
relFields(name) ==
    SelectSeq(StructFields(name), LAMBDA fi : fi.fieldType \in relTypes \cup reverseTypes)

\* a write through the pointer to the model old: every map entry that holds
\* the pointer sees the model new
entryPut(mc, old, new) ==
    [mc EXCEPT !.cache = [k \in DOMAIN @ |-> IF @[k] = old THEN new ELSE @[k]],
               !.cacheByFullName = [k \in DOMAIN @ |-> IF @[k] = old THEN new ELSE @[k]]]

\* the junction model newM2MModelInfo builds for the registered models m1 and
\* m2, as the registry holds it: mi.fullName = m1.pkg + "." + mi.name, and
\* f1.relModelInfo = m1, f2.relModelInfo = m2 (the first Add takes f1; the
\* second takes f2 unless its name or its column is f1's)
newM2MEntry(m1, m2) ==
    LET i == newM2MModelInfo(m1, m2)
        f1 == camelString(m1.table)
        f2 == camelString(m2.table)
        rels == <<f1>> \o (IF f2 # f1 /\ f2 \in DOMAIN i.info THEN <<f2>> ELSE <<>>)
    IN  [modelEntry(i, getFullName(i.name), FALSE, <<>>) EXCEPT
            !.fieldsRel = rels,
            !.relModelInfo = [f \in {rels[n] : n \in DOMAIN rels} |->
                                 IF f = f1 THEN m1.table ELSE m2.table]]

\* bootStrap, first stage, the end of the step for a many-to-many field f of
\* the model under table k: the junction model i is set under its table,
\* which must be free, and becomes fi.relThroughModelInfo
throughSet(mc, k, f, i) ==
    LET was == cacheSet(mc, i.table, i)
        e == mc.cache[k]
    IN  IF was.old # {} THEN [mc |-> was.mc, err |-> TRUE]
        ELSE [mc |-> entryPut(entryPut(was.mc, e,
                                       [e EXCEPT !.relThroughModelInfo = mapPut(@, f, i.table)]),
                              i, [i EXCEPT !.isThrough = TRUE]),
              err |-> FALSE]

\* fi.relModelInfo = mii for the field f of the model under table k
relModelSet(mc, k, f, mii) ==
    entryPut(mc, mc.cache[k], [mc.cache[k] EXCEPT !.relModelInfo = mapPut(@, f, mii.table)])

\* bootStrap, first stage, for the relation field f of the model under
\* table k: the target must be registered and becomes fi.relModelInfo; for a
\* many-to-many field the junction model is built from the two models.
\* Every error is os.Exit(2); newM2MModelInfo panics unless both models have
\* one key.
bootStrapField(mc, k, f) ==
    LET target == getFullName(relElem(f))
    IN  IF target \notin DOMAIN mc.cacheByFullName THEN [mc |-> mc, err |-> TRUE]
        ELSE IF mc.cache[k].info[f].fieldType # RelManyToMany
        THEN [mc |-> relModelSet(mc, k, f, mc.cacheByFullName[target]), err |-> FALSE]
        ELSE IF Cardinality(DOMAIN mc.cache[k].keys) # 1
                \/ Cardinality(DOMAIN mc.cacheByFullName[target].keys) # 1
        THEN [mc |-> relModelSet(mc, k, f, mc.cacheByFullName[target]), err |-> TRUE]
        ELSE throughSet(relModelSet(mc, k, f, mc.cacheByFullName[target]), k, f,
                        newM2MEntry(mc.cache[k], mc.cacheByFullName[target]))

RECURSIVE bootStrapFields(_, _, _, _)
\* bootStrap, first stage, for the relation fields of the model under table k;
\* a junction model in the range has fields without addrValue and the stage
\* panics on them
bootStrapFields(mc, k, fis, n) ==
    IF k \notin DOMAIN mc.cache \/ ~mc.cache[k].manual THEN [mc |-> mc, err |-> TRUE]
    ELSE IF n > Len(fis) THEN [mc |-> mc, err |-> FALSE]
    ELSE LET out == bootStrapField(mc, k, fis[n].name)
         IN  IF out.err THEN out ELSE bootStrapFields(out.mc, k, fis, n + 1)

RECURSIVE bootStrapModels(_, _, _, _)
\* the first range over models = modelCache.all(), in the order ord
bootStrapModels(mc, models, ord, n) ==
    IF n > Len(ord) THEN [mc |-> mc, err |-> FALSE]
    ELSE LET e == models[ord[n]]
             out == bootStrapFields(mc, ord[n], IF e.manual THEN relFields(e.name) ELSE <<>>, 1)
         IN  IF out.err THEN out ELSE bootStrapModels(out.mc, models, ord, n + 1)

\* whether a reverse field of rmi points at the model under table k
inModel(rmi, k) ==
    \E n \in 1..Len(rmi.fieldsReverse) : rmi.relModelInfo[rmi.fieldsReverse[n]] = k

\* fields.Add of the reverse field ffi to the entry rmi, pointing at table k
entryAddReverse(rmi, ffi, k) ==
    [rmi EXCEPT !.info = mapPut(@, ffi.name, ffi),
                !.columns = mapPut(@, ffi.column, ffi.name),
                !.fieldsReverse = Append(@, ffi.name),
                !.relModelInfo = mapPut(@, ffi.name, k)]

\* the number of retries with a numbered name
MaxRetries == 5
\* the type of the reverse field made for a relation field
reverseAlwaysMany(fieldType) == RelReverseMany
reverseType(fieldType) ==
    IF fieldType = RelOneToOne THEN RelReverseOne ELSE RelReverseMany

RECURSIVE addNumbered(_, _, _, _, _)
\* the retries with the names mi.name0 .. mi.name4; a set, empty when none
\* was taken
addNumbered(rmi, name, fieldType, k, cnt) ==
    IF cnt >= MaxRetries THEN {}
    ELSE LET ffi == newFieldInfo(name \o ToString(cnt), name \o ToString(cnt),
                                 fieldType, FALSE, FALSE)
         IN  IF fieldsAdds(rmi, ffi) THEN {entryAddReverse(rmi, ffi, k)}
             ELSE addNumbered(rmi, name, fieldType, k, cnt + 1)

\* bootStrap, second stage, for one relation field of the model under table k:
\* the model it points at gets a reverse field named after this model unless
\* one of its reverse fields points back already
reverseAdded(mc, k, f) ==
    LET e == mc.cache[k]
        rmi == mc.cache[e.relModelInfo[f]]
        ffi == newFieldInfo(e.name, e.name, reverseType(e.info[f].fieldType), FALSE, FALSE)
        retry == addNumbered(rmi, e.name, reverseType(e.info[f].fieldType), k, 0)
    IN  IF inModel(rmi, k) THEN [mc |-> mc, err |-> FALSE]
        ELSE IF fieldsAdds(rmi, ffi)
        THEN [mc |-> entryPut(mc, rmi, entryAddReverse(rmi, ffi, k)), err |-> FALSE]
        ELSE IF retry = {} THEN [mc |-> mc, err |-> TRUE]
        ELSE [mc |-> entryPut(mc, rmi, CHOOSE r \in retry : TRUE), err |-> FALSE]

\* bootStrap, third stage, for one relation field of the model under table k:
\* a many-to-many field takes, of the junction model's foreign keys, the one
\* to its target as reverseFieldInfoTwo and the one to its own model as
\* reverseFieldInfo; it is an error when the junction has none to the target
reverseTwoSet(mc, k, f) ==
    LET e == mc.cache[k]
        through == mc.cache[e.relThroughModelInfo[f]]
        toTarget == {n \in 1..Len(through.fieldsRel) :
                        through.relModelInfo[through.fieldsRel[n]] = e.relModelInfo[f]}
        toSelf == {n \in 1..Len(through.fieldsRel) :
                        through.relModelInfo[through.fieldsRel[n]] = k}
        Last(S) == through.fieldsRel[CHOOSE n \in S : \A m \in S : m <= n]
        e1 == [e EXCEPT !.reverseFieldInfoTwo =
                            IF toTarget # {} THEN mapPut(@, f, Last(toTarget)) ELSE @,
                        !.reverseFieldInfo =
                            IF toSelf # {} THEN mapPut(@, f, Last(toSelf)) ELSE @]
    IN  IF e.info[f].fieldType # RelManyToMany THEN [mc |-> mc, err |-> FALSE]
        ELSE [mc |-> entryPut(mc, e, e1), err |-> toTarget = {}]

\* the fields of type fieldType among the relation fields of a model
fieldsByType(e, fieldType) ==
    SelectSeq(e.fieldsRel, LAMBDA f : e.info[f].fieldType = fieldType)

\* the places in fs of the relation fields of rmi that point at table k
pointBack(rmi, fs, k) == {n \in 1..Len(fs) : rmi.relModelInfo[fs[n]] = k}
\* the first field of fs that points back: where the search loop breaks
firstBack(rmi, fs, k) ==
    fs[CHOOSE n \in pointBack(rmi, fs, k) : \A m \in pointBack(rmi, fs, k) : n <= m]

\* fi.reverseFieldInfo = ffi and ffi.reverseFieldInfo = fi, for the reverse
\* field f of the model under table k and the field ffi of the model it
\* points at
crossLinked(mc, k, f, ffi) ==
    LET e == mc.cache[k]
        rmi == mc.cache[e.relModelInfo[f]]
    IN  entryPut(entryPut(mc, e, [e EXCEPT !.reverseFieldInfo = mapPut(@, f, ffi)]),
                 rmi, [rmi EXCEPT !.reverseFieldInfo = mapPut(@, ffi, f)])

\* the search for the counterpart of a reverse field in the fields fs of the
\* model rmi it points at
pairedWith(mc, k, f, rmi, fs) ==
    IF pointBack(rmi, fs, k) = {} THEN [mc |-> mc, err |-> TRUE]
    ELSE [mc |-> crossLinked(mc, k, f, firstBack(rmi, fs, k)), err |-> FALSE]

\* the search among the many-to-many fields of rmi: the reverse field takes
\* the junction's foreign key the many-to-many field has as
\* reverseFieldInfoTwo (the reverse fields of the structs carry no
\* rel_through and no rel_table, which makes conditions true)
pairedThrough(mc, k, f, rmi, fs) ==
    IF pointBack(rmi, fs, k) = {} THEN [mc |-> mc, err |-> TRUE]
    ELSE [mc |-> entryPut(mc, mc.cache[k],
                          [mc.cache[k] EXCEPT !.reverseFieldInfo =
                              mapPut(@, f, rmi.reverseFieldInfoTwo[firstBack(rmi, fs, k)])]),
          err |-> FALSE]

\* bootStrap, last stage, for one reverse field of the model under table k: a
\* reverse-one field needs a one-to-one field of the model it points at that
\* points back, a reverse-many field a foreign key of it or else a
\* many-to-many field
reverseFound(mc, k, f) ==
    LET e == mc.cache[k]
        rmi == mc.cache[e.relModelInfo[f]]
    IN  IF e.info[f].fieldType = RelReverseOne
        THEN pairedWith(mc, k, f, rmi, fieldsByType(rmi, RelOneToOne))
        ELSE IF pointBack(rmi, fieldsByType(rmi, RelForeignKey), k) # {}
        THEN pairedWith(mc, k, f, rmi, fieldsByType(rmi, RelForeignKey))
        ELSE pairedThrough(mc, k, f, rmi, fieldsByType(rmi, RelManyToMany))

\* the step a later stage takes for one field, and the fields it ranges over
\* (fieldsRel in the second and third stage, fieldsReverse in the last); the
\* field of a model that was registered after the first range has no
\* relModelInfo, and the stage panics on the nil pointer
stageStep(stage, mc, k, f) ==
    CASE f \notin DOMAIN mc.cache[k].relModelInfo -> [mc |-> mc, err |-> TRUE]
      [] stage = 2 -> reverseAdded(mc, k, f)
      [] stage = 3 -> reverseTwoSet(mc, k, f)
      [] stage = 4 -> reverseFound(mc, k, f)
stageRange(stage, e) == IF stage = 4 THEN e.fieldsReverse ELSE e.fieldsRel

RECURSIVE stageFields(_, _, _, _, _)
\* one stage's range over the fields fs of the model under table k
stageFields(stage, mc, k, fs, n) ==
    IF n > Len(fs) THEN [mc |-> mc, err |-> FALSE]
    ELSE LET out == stageStep(stage, mc, k, fs[n])
         IN  IF out.err THEN out ELSE stageFields(stage, out.mc, k, fs, n + 1)

RECURSIVE stageModels(_, _, _, _)
\* one of the later ranges over modelCache.all(): the order of the range is
\* random, and what a stage leaves in the registry is the same for every
\* order, so the range is taken in the order of registration
stageModels(stage, mc, ord, n) ==
    IF n > Len(ord) THEN [mc |-> mc, err |-> FALSE]
    ELSE LET out == stageFields(stage, mc, ord[n], stageRange(stage, mc.cache[ord[n]]), 1)
         IN  IF out.err THEN out ELSE stageModels(stage, out.mc, ord, n + 1)

\* a later stage after the stages before it: the goto end skips it
stageAfter(stage, prev) ==
    IF prev.err THEN prev ELSE stageModels(stage, prev.mc, prev.mc.orders, 1)

\* bootStrap past the done test: the four ranges over the models; err when
\* the pass ends in os.Exit(2) or a panic
bootStrap(mc, models, ord) ==
    stageAfter(4, stageAfter(3, stageAfter(2, bootStrapModels(mc, models, ord, 1))))

\* bootStrap that never finds the registry done
bootStrapNeverDone(mc) == FALSE
\* bootStrap returns at once when modelCache.done is set
bootStrapDone(mc) == mc.done

\* BootStrap reads modelCache.done without the lock, while another goroutine
\* may write it under the lock: the read gives the value written or the one
\* before it
BootEnter(t) ==
    /\ pc[t].at \in {"idle", "done"}
    /\ \E done \in {modelCache.done, FALSE} :
          /\ ~halted
          /\ pc' = [pc EXCEPT ![t] = IF done
                                     THEN [Idle EXCEPT !.at = "done", !.path = "returned"]
                                     ELSE [Idle EXCEPT !.at = "lock"]]
    /\ result' = [NoCall EXCEPT !.op = "BootStrap"]
    /\ UNCHANGED <<database, mi, dialect, keyOrder, calls, lock, runs, modelCache, halted>>

BootLock(t) ==
    /\ pc[t].at = "lock"
    /\ lock = 0
    /\ lock' = t
    /\ ~halted
    /\ pc' = [pc EXCEPT ![t].at = "locked"]
    /\ result' = [NoCall EXCEPT !.op = "BootStrap"]
    /\ UNCHANGED <<database, mi, dialect, keyOrder, calls, runs, modelCache, halted>>

\* bootStrap finds done set and returns; BootStrap sets done and unlocks
BootSkip(t) ==
    /\ pc[t].at = "locked"
    /\ bootStrapDone(modelCache)
    /\ ~halted
    /\ modelCache' = [modelCache EXCEPT !.done = TRUE]
    /\ lock' = 0
    /\ pc' = [pc EXCEPT ![t].at = "done", ![t].path = "skipped"]
    /\ result' = [NoCall EXCEPT !.op = "BootStrap"]
    /\ UNCHANGED <<database, mi, dialect, keyOrder, calls, runs, halted>>

\* bootStrap starts its pass over modelCache.all()
BootBegin(t) ==
    /\ pc[t].at = "locked"
    /\ ~bootStrapDone(modelCache)
    /\ runs < MaxPasses
    /\ runs' = runs + 1
    /\ ~halted
    /\ pc' = [pc EXCEPT ![t].at = "pass", ![t].models = modelCache.cache]
    /\ result' = [NoCall EXCEPT !.op = "BootStrap"]
    /\ UNCHANGED <<database, mi, dialect, keyOrder, calls, lock, modelCache, halted>>

\* the pass ends: in os.Exit(2), or bootStrap returns, BootStrap sets done and
\* unlocks.  A model registered during the pass may or may not be in its range.
BootEnd(t) ==
    /\ pc[t].at = "pass"
    /\ ~halted
    /\ \E models \in {pc[t].models, modelCache.cache} :
         \E ord \in Orders(DOMAIN models) :
            LET out == bootStrap(modelCache, models, ord)
            IN  IF out.err
                THEN /\ halted' = TRUE
                     /\ modelCache' = out.mc
                     /\ UNCHANGED <<pc, lock>>
                ELSE /\ modelCache' = [out.mc EXCEPT !.done = TRUE]
                     /\ lock' = 0
                     /\ pc' = [pc EXCEPT ![t].at = "done", ![t].path = "passed",
                                         ![t].models = <<>>]
                     /\ UNCHANGED halted
    /\ result' = [NoCall EXCEPT !.op = "BootStrap"]
    /\ UNCHANGED <<database, mi, dialect, keyOrder, calls, runs>>

InitBoot == Registered("Doc")
NextBoot ==
    \/ \E name \in RegisterNames : RegisterModel(name)
    \/ \E t \in Threads :
          \/ BootEnter(t)
          \/ BootLock(t)
          \/ BootSkip(t)
          \/ BootBegin(t)
          \/ BootEnd(t)
SpecBoot == InitBoot /\ [][NextBoot]_vars

(***************************************************************************)
(* Registration and BootStrap called one after the other by one goroutine. *)
(***************************************************************************)
\* the structs RegisterModel is called with
ModelNames == {"Team", "Tag", "Author", "Book", "Label", "Pair", "TeamTag"}

\* the models whose turn in the first range does anything: a model without
\* relation fields is passed over
relTables(models) ==
    {k \in DOMAIN models : ~models[k].manual \/ relFields(models[k].name) # <<>>}

\* BootStrap from the done test to its return, or to the exit of the process
BootStrapCall ==
    /\ ~halted
    /\ \A t \in Threads : pc[t].at = "idle"
    /\ IF bootStrapDone(modelCache)
       THEN UNCHANGED <<modelCache, halted, runs>>
       ELSE /\ runs' = runs + 1
            /\ \E ord \in Orders(relTables(modelCache.cache)) :
                  LET out == bootStrap(modelCache, modelCache.cache, ord)
                  IN  IF out.err
                      THEN /\ halted' = TRUE
                           /\ modelCache' = out.mc
                      ELSE /\ modelCache' = [out.mc EXCEPT !.done = TRUE]
                           /\ UNCHANGED halted
    /\ result' = [NoCall EXCEPT !.op = "BootStrap"]
    /\ UNCHANGED <<database, mi, dialect, keyOrder, calls, pc, lock>>

InitRegistry == Registered("Team")
NextRegistry ==
    \/ \E name \in ModelNames : RegisterModel(name)
    \/ BootStrapCall
SpecRegistry == InitRegistry /\ [][NextRegistry]_vars

(***************************************************************************)
(* SpecReverse: structs with foreign keys, one-to-one fields and reverse   *)
(* fields are registered, up to MaxModels of them, and BootStrap is called.*)
(***************************************************************************)
MaxModels == 3
ReverseNames == {"Wiki", "Note", "Full", "Memo", "Blog", "Post", "Desk", "Card", "Link"}
RegisterSome ==
    \E name \in ReverseNames :
        /\ Len(modelCache.orders) < MaxModels
        /\ ~modelCache.done
        /\ RegisterModel(name)
InitReverse == Started(newModelInfo("Doc"))
NextReverse ==
    \/ RegisterSome
    \/ BootStrapCall
SpecReverse == InitReverse /\ [][NextReverse]_vars

(***************************************************************************)
(* The condition compiler: getFlatParams, GenerateOperatorSQL, getCondSQL. *)
(* A text is the sequence of the pieces the code joins into a string.      *)
(***************************************************************************)
\* runs are cut at MaxArgs arguments of a term and MaxTerms terms of a tree
MaxArgs == 3
MaxTerms == 2

\* the values of an argument list ([]interface{})
NilArg == [kind |-> "nil"]
IntArg(n) == [kind |-> "int", i |-> n]
Int64Arg(n) == [kind |-> "int64", i |-> n]
BoolArg(b) == [kind |-> "bool", b |-> b]
StrArg(str) == [kind |-> "string", s |-> str]
SliceArg(elems) == [kind |-> "slice", elems |-> elems]
BytesArg == [kind |-> "bytes"]
\* a struct value that is no time.Time: an instance of the struct called
\* name with the value pk in its key field; known when the struct was
\* registered with the database
StructArg(name, known, pk) == [kind |-> "struct", name |-> name, known |-> known, pk |-> pk]
\* a panic met while flattening, in the place of the parameter
PanicArg == [kind |-> "panic"]

\* DbMap.TableFor(typ, true): the model of a registered struct and no error,
\* or no model and an error
TableFor(arg) == IF arg.known THEN [mmi |-> arg.name, err |-> FALSE]
                 ELSE [mmi |-> "nil", err |-> TRUE]
\* getExistPk for a signed integer key: the value always exists; a nil
\* modelInfo is dereferenced at once
getExistPk(mmi, arg) ==
    IF mmi = "nil" THEN [value |-> PanicArg, exist |-> FALSE]
    ELSE [value |-> Int64Arg(arg.pk), exist |-> TRUE]
\* the struct case of getFlatParams: the key is looked for when TableFor
\* gave an error, and a value that stays nil is a panic
structParam(arg) ==
    LET found == TableFor(arg)
        pk == getExistPk(found.mmi, arg)
        value == IF found.err
                 THEN (IF pk.value = PanicArg THEN PanicArg
                       ELSE IF pk.exist THEN pk.value ELSE NilArg)
                 ELSE NilArg
    IN  IF value = NilArg THEN PanicArg ELSE value

RECURSIVE getFlatParams(_)
\* getFlatParams for a field that holds no time: nil is kept, an int becomes
\* an int64, a string and a bool stay, a []byte is dropped, and a slice gives
\* the flat parameters of its elements that are not nil
getFlatParams(args) ==
    IF Len(args) = 0 THEN <<>>
    ELSE LET arg == Head(args)
             rest == getFlatParams(Tail(args))
         IN  CASE arg.kind = "nil" -> <<arg>> \o rest
               [] arg.kind = "int" -> <<Int64Arg(arg.i)>> \o rest
               [] arg.kind = "bytes" -> rest
               [] arg.kind = "slice" ->
                    getFlatParams(SelectSeq(arg.elems, LAMBDA vu : vu.kind # "nil")) \o rest
               [] arg.kind = "struct" -> <<structParam(arg)>> \o rest
               [] OTHER -> <<arg>> \o rest

\* a panic inside getFlatParams ends the caller as well
flatPanics(params) == \E k \in DOMAIN params : params[k] = PanicArg

\* a single mark whatever the number of parameters
marksOne(n) == <<"?">>
RECURSIVE marks(_)
\* strings.Join(marks, ", ") for n marks
marks(n) == IF n <= 1 THEN <<"?">> ELSE marks(n - 1) \o <<", ", "?">>

\* a call that ended in a panic
Panicked == [sql |-> <<>>, params |-> <<>>, panic |-> TRUE]

\* only the test for no parameter at all
wrongCountZero(operator, n) == n = 0
\* the numbers of flat parameters GenerateOperatorSQL panics on: none, for
\* between any but two, for an operator other than in more than one
wrongCount(operator, n) ==
    \/ n = 0
    \/ operator = "between" /\ n # 2
    \/ operator \notin {"in", "between"} /\ n > 1

\* IS NULL for either value
nullTestAlways(b) == <<"IS NULL">>
\* the text of isnull for a bool
nullTest(b) == IF b THEN <<"IS NULL">> ELSE <<"IS NOT NULL">>

\* GenerateOperatorSQL; text is what d.dbmap.Dialect.OperatorSQL(operator)
\* gives.  The operators of the runs are in, between, isnull, exact and gt.
GenerateOperatorSQL(operator, args, text) ==
    LET params == getFlatParams(args)
    IN  IF flatPanics(params) \/ wrongCount(operator, Len(params)) THEN Panicked
        ELSE CASE operator = "in" ->
                    [sql |-> <<"IN (">> \o marks(Len(params)) \o <<")">>,
                     params |-> params, panic |-> FALSE]
               [] operator = "between" ->
                    [sql |-> <<"BETWEEN ? AND ?">>, params |-> params, panic |-> FALSE]
               [] operator = "exact" ->
                    [sql |-> <<text>>,
                     params |-> IF params[1].kind = "nil"
                                THEN <<StrArg("IS NULL")>> ELSE params,
                     panic |-> FALSE]
               [] operator = "isnull" ->
                    IF params[1].kind # "bool" THEN Panicked
                    ELSE [sql |-> nullTest(params[1].b), params |-> <<>>, panic |-> FALSE]
               [] OTHER -> [sql |-> <<text>>, params |-> params, panic |-> FALSE]

\* the operators map
operators == {"exact", "iexact", "contains", "icontains", "gt", "gte", "lt", "lte",
              "eq", "nq", "ne", "startswith", "endswith", "istartswith", "iendswith",
              "in", "between", "isnull"}

\* the lookup maps of the TableMap the conditions are compiled for: struct
\* fields Id and Name on the columns id and name
FieldMap == [Id |-> "id", Name |-> "name", Title |-> "headline"]
FieldLowMap == [id |-> "id", name |-> "name", title |-> "headline"]
ColumnMap == [id |-> "id", name |-> "name", headline |-> "headline"]
ColumnLowMap == [id |-> "id", name |-> "name", headline |-> "headline"]
\* strings.ToLower on the names of the runs
ToLower(str) ==
    CASE str \in {"Id", "ID"} -> "id"
      [] str = "Name" -> "name"
      [] str \in {"Title", "TITLE"} -> "title"
      [] str \in {"Headline", "HEADLINE"} -> "headline"
      [] OTHER -> str

\* TableMap.GetByAny: the ColumnName of the column found, as a set
GetByAny(name) ==
    IF name \in DOMAIN FieldMap THEN {FieldMap[name]}
    ELSE IF ToLower(name) \in DOMAIN FieldLowMap THEN {FieldLowMap[ToLower(name)]}
    ELSE IF name \in DOMAIN ColumnMap THEN {ColumnMap[name]}
    ELSE IF name \in DOMAIN ColumnLowMap THEN {ColumnLowMap[name]}
    ELSE {}

\* the fieldsLow map that fields.Add fills beside fields and columns
fieldsLow(t) ==
    [l \in {ToLower(f) : f \in DOMAIN t.info} |->
        CHOOSE f \in DOMAIN t.info : ToLower(f) = l]
\* fields.GetByAny: the name of the fieldInfo found, as a set
fieldsGetByAny(t, name) ==
    IF name \in DOMAIN t.info THEN {name}
    ELSE IF ToLower(name) \in DOMAIN fieldsLow(t) THEN {fieldsLow(t)[ToLower(name)]}
    ELSE IF name \in DOMAIN t.columns THEN {t.columns[name]}
    ELSE {}
\* modelInfo.GetByAny: the name of the fieldInfo found, as a set
modelInfoGetByAny(t, name) ==
    IF name \in DOMAIN t.info THEN {name}
    ELSE IF ToLower(name) \in DOMAIN fieldsLow(t) THEN {fieldsLow(t)[ToLower(name)]}
    ELSE {}

\* parseExprs: the column of exprs[0] or, of two, exprs[1]; empty on failure
parseExprs(exprs) ==
    IF Len(exprs) = 1 THEN GetByAny(exprs[1])
    ELSE IF Len(exprs) = 2 THEN GetByAny(exprs[2])
    ELSE {}

\* a nil *Condition, and Condition.IsEmpty
NilCond == [isNil |-> TRUE, params |-> <<>>]
IsEmpty(cond) == Len(cond.params) = 0

\* the prefix that is always written, also before an empty text
prefixedAlways(sub, where) == IF ~sub THEN <<"WHERE ">> \o where ELSE where
\* the end of getCondSQL: "WHERE " before a top-level text that is not empty
prefixed(sub, where) == IF ~sub /\ where # <<>> THEN <<"WHERE ">> \o where ELSE where

\* the term of a leaf: the operator is split off exprs when the last element
\* is one, the column is looked up and the operator's text follows it
condLeaf(p, text) ==
    LET num == Len(p.exprs)
        isOp == p.exprs[num] \in operators
        operator == IF isOp THEN p.exprs[num] ELSE "exact"
        fi == parseExprs(IF isOp THEN SubSeq(p.exprs, 1, num - 1) ELSE p.exprs)
        out == GenerateOperatorSQL(operator, p.args, text)
    IN  IF fi = {} \/ out.panic THEN [where |-> <<>>, params |-> <<>>, panic |-> TRUE]
        ELSE [where |-> <<CHOOSE c \in fi : TRUE, " ">> \o out.sql \o <<" ">>,
              params |-> out.params, panic |-> FALSE]

\* the join word alone, without NOT
condJoinOnly(p, i) ==
    IF i > 1 THEN (IF p.isOr THEN <<"OR ">> ELSE <<"AND ">>) ELSE <<>>
\* what is written before the i-th term
condJoin(p, i) ==
    (IF i > 1 THEN (IF p.isOr THEN <<"OR ">> ELSE <<"AND ">>) ELSE <<>>)
        \o (IF p.isNot THEN <<"NOT ">> ELSE <<>>)

\* fmt.Sprintf("( %s) ", w) for a sub-condition's text that is not empty
condSub(w) == IF w # <<>> THEN <<"( ">> \o w \o <<") ">> ELSE w

RECURSIVE getCondSQL(_, _, _)
RECURSIVE condParams(_, _, _)
\* the range over cond.params from the i-th term on
condParams(ps, i, text) ==
    IF i > Len(ps) THEN [where |-> <<>>, params |-> <<>>, panic |-> FALSE]
    ELSE LET p == ps[i]
             term == IF p.isCond
                     THEN getCondSQL(p.cond, TRUE, text)
                     ELSE condLeaf(p, text)
             rest == condParams(ps, i + 1, text)
         IN  IF term.panic \/ rest.panic
             THEN [where |-> <<>>, params |-> <<>>, panic |-> TRUE]
             ELSE [where |-> condJoin(p, i)
                                \o (IF p.isCond THEN condSub(term.where) ELSE term.where)
                                \o rest.where,
                   params |-> term.params \o rest.params, panic |-> FALSE]

\* TableMap.getCondSQL
getCondSQL(cond, sub, text) ==
    IF cond.isNil \/ IsEmpty(cond) THEN [where |-> <<>>, params |-> <<>>, panic |-> FALSE]
    ELSE LET out == condParams(cond.params, 1, text)
         IN  IF out.panic THEN out ELSE [out EXCEPT !.where = prefixed(sub, @)]

(***************************************************************************)
(* Calls of the condition compiler: the call is drawn first, then made.    *)
(***************************************************************************)
\* a leaf term and a sub-condition term of a Condition
Leaf(isOr, isNot, exprs, args) ==
    [isOr |-> isOr, isNot |-> isNot, isCond |-> FALSE, cond |-> NilCond,
     exprs |-> exprs, args |-> args]
SubCond(isOr, isNot, cond) ==
    [isOr |-> isOr, isNot |-> isNot, isCond |-> TRUE, cond |-> cond,
     exprs |-> <<>>, args |-> <<>>]
Cond(params) == [isNil |-> FALSE, params |-> params]

\* the texts the dialect may give for an operator (the Dialect is not part of
\* the sources: the runs try a text with a placeholder and one without)
OperatorTexts == {"= ?", "IS NULL"}
Operators == {"in", "between", "isnull", "exact", "gt"}
ArgValues ==
    {NilArg, IntArg(1), IntArg(2), BoolArg(TRUE), BoolArg(FALSE), StrArg("a"),
     SliceArg(<<>>), SliceArg(<<IntArg(1), IntArg(2), IntArg(3)>>),
     SliceArg(<<IntArg(2), NilArg, SliceArg(<<IntArg(1)>>)>>)}
ArgLists == UNION {[1..n -> ArgValues] : n \in 0..MaxArgs}

LeafTerms ==
    {Leaf(isOr, isNot, l[1], l[2]) :
        isOr \in BOOLEAN, isNot \in BOOLEAN,
        l \in {<< <<"Name">>, <<StrArg("a")>> >>,
               << <<"Id", "in">>, <<SliceArg(<<IntArg(1), IntArg(2)>>)>> >>}}
        \cup {Leaf(FALSE, FALSE, <<"nope">>, <<IntArg(1)>>)}
SubConds ==
    {NilCond, Cond(<<>>),
     Cond(<<Leaf(FALSE, FALSE, <<"Name">>, <<StrArg("a")>>)>>),
     Cond(<<Leaf(FALSE, FALSE, <<"Name">>, <<StrArg("a")>>),
            Leaf(TRUE, FALSE, <<"id", "between">>, <<IntArg(1), IntArg(2)>>)>>),
     Cond(<<SubCond(FALSE, TRUE, Cond(<<Leaf(FALSE, FALSE, <<"Id", "isnull">>,
                                            <<BoolArg(TRUE)>>)>>))>>)}
SubTerms == {SubCond(isOr, isNot, c) : isOr \in BOOLEAN, isNot \in BOOLEAN, c \in SubConds}
Conds ==
    {NilCond} \cup {Cond(ps) : ps \in UNION {[1..n -> LeafTerms \cup SubTerms] : n \in 0..MaxTerms}}

OperatorCalls ==
    {[op |-> "GenerateOperatorSQL", done |-> FALSE, operator |-> operator,
      args |-> args, text |-> text, sql |-> <<>>, params |-> <<>>, panic |-> FALSE] :
        operator \in Operators, args \in ArgLists, text \in OperatorTexts}
CondCalls ==
    {[op |-> "getCondSQL", done |-> FALSE, cond |-> cond, sub |-> sub, text |-> text,
      where |-> <<>>, params |-> <<>>, panic |-> FALSE] :
        cond \in Conds, sub \in BOOLEAN, text \in OperatorTexts}

\* " and " whether or not a filter follows
whereAndAlways(s) == <<" and ">>
\* " and " after the join predicates when the filter is not empty
whereAnd(s) == IF s.whereClause # "" THEN <<" and ">> ELSE <<>>
\* Select.ToStatementString: the pieces added to sql, in order
ToStatementString(s) ==
    <<"select ", s.selectClause, " from ", s.fromClause>>
    \o (IF s.outerJoinsAfterFrom # "" THEN <<s.outerJoinsAfterFrom>> ELSE <<>>)
    \o (IF s.whereClause # "" \/ s.outerJoinsAfterWhere # ""
        THEN <<" where ">>
             \o (IF s.outerJoinsAfterWhere # ""
                 THEN <<s.outerJoinsAfterWhere>> \o whereAnd(s) ELSE <<>>)
             \o (IF s.whereClause # "" THEN <<s.whereClause>> ELSE <<>>)
        ELSE <<>>)
    \o (IF s.groupByClause # "" THEN <<"  group by ", s.groupByClause>> ELSE <<>>)
    \o (IF s.orderByClause # "" THEN <<"  order by  ", s.orderByClause>> ELSE <<>>)

\* the Select values of the runs: a select list and a from clause as
\* CriteriaTranslator.List gives them, every other clause empty or not
Selects ==
    [selectClause : {"*", "count(*)"}, fromClause : {"doc this"},
     outerJoinsAfterFrom : {"", " left outer join tag t on this.id = t.doc"},
     whereClause : {"", "this.name = ?"},
     outerJoinsAfterWhere : {"", "this.id = t.doc(+)"},
     orderByClause : {"", "this.id"}, groupByClause : {"", "this.name"}]
SelectCalls ==
    {[op |-> "ToStatementString", done |-> FALSE, s |-> s, sql |-> <<>>] : s \in Selects}

CallToStatementString ==
    /\ result.op = "ToStatementString"
    /\ ~result.done
    /\ result' = [result EXCEPT !.done = TRUE, !.sql = ToStatementString(result.s)]
    /\ UNCHANGED <<mi, dialect, keyOrder, calls>>
    /\ UNCHANGED threadVars

\* the paths looked up on Page and on its TableMap
PathNames == {"Id", "ID", "Title", "title", "TITLE", "headline", "Headline", "HEADLINE", "nope"}
LookupCalls ==
    {[op |-> "GetByAny", done |-> FALSE, on |-> on, name |-> name, found |-> {}] :
        on \in {"TableMap", "modelInfo", "fields"}, name \in PathNames}

\* GetByAny on the TableMap, the modelInfo or the fields of Page
CallGetByAny ==
    /\ result.op = "GetByAny"
    /\ ~result.done
    /\ result' = [result EXCEPT
                     !.done = TRUE,
                     !.found = CASE result.on = "TableMap" -> GetByAny(result.name)
                                 [] result.on = "modelInfo" ->
                                      modelInfoGetByAny(newModelInfo("Page"), result.name)
                                 [] result.on = "fields" ->
                                      fieldsGetByAny(newModelInfo("Page"), result.name)]
    /\ UNCHANGED <<mi, dialect, keyOrder, calls>>
    /\ UNCHANGED threadVars

\* struct values: Team instances, registered or not, with key 0 or 7
StructValues == {StructArg("Team", known, pk) : known \in BOOLEAN, pk \in {0, 7}}
FlatCalls ==
    {[op |-> "getFlatParams", done |-> FALSE, args |-> args, params |-> <<>>,
      panic |-> FALSE] :
        args \in {<<v>> : v \in StructValues}
                 \cup {<<IntArg(1), v>> : v \in StructValues}
                 \cup {<<SliceArg(<<v>>)>> : v \in StructValues}
                 \cup {<<IntArg(1)>>, <<NilArg, StrArg("a")>>}}

CallGetFlatParams ==
    /\ result.op = "getFlatParams"
    /\ ~result.done
    /\ LET params == getFlatParams(result.args)
       IN  result' = [result EXCEPT !.done = TRUE,
                                    !.params = IF flatPanics(params) THEN <<>> ELSE params,
                                    !.panic = flatPanics(params)]
    /\ UNCHANGED <<mi, dialect, keyOrder, calls>>
    /\ UNCHANGED threadVars

CallGenerateOperatorSQL ==
    /\ result.op = "GenerateOperatorSQL"
    /\ ~result.done
    /\ LET out == GenerateOperatorSQL(result.operator, result.args, result.text)
       IN  result' = [result EXCEPT !.done = TRUE, !.sql = out.sql,
                                    !.params = out.params, !.panic = out.panic]
    /\ UNCHANGED <<mi, dialect, keyOrder, calls>>
    /\ UNCHANGED threadVars

CallGetCondSQL ==
    /\ result.op = "getCondSQL"
    /\ ~result.done
    /\ LET out == getCondSQL(result.cond, result.sub, result.text)
       IN  result' = [result EXCEPT !.done = TRUE, !.where = out.where,
                                    !.params = out.params, !.panic = out.panic]
    /\ UNCHANGED <<mi, dialect, keyOrder, calls>>
    /\ UNCHANGED threadVars

InitCond ==
    /\ mi = newModelInfo("Doc")
    /\ keyOrder = tagKeyOrder(StructFields("Doc"), 1)
    /\ dialect = ""
    /\ result \in OperatorCalls \cup CondCalls \cup FlatCalls \cup SelectCalls
                 \cup LookupCalls
    /\ calls = 0
    /\ pc = [t1 \in Threads |-> Idle]
    /\ lock = 0
    /\ runs = 0
    /\ modelCache = emptyCache
    /\ halted = FALSE
    /\ database = nilDatabase
NextCond ==
    \/ CallGetByAny
    \/ CallToStatementString
    \/ CallGetFlatParams
    \/ CallGenerateOperatorSQL
    \/ CallGetCondSQL
SpecCond == InitCond /\ [][NextCond]_vars

(***************************************************************************)
(* Reading a generated text back.                                          *)
(***************************************************************************)
Range(f) == {f[x] : x \in DOMAIN f}
NoRepeat(f) == \A x, y \in DOMAIN f : x # y => f[x] # f[y]
IsField(tok) == tok.k = "field"
\* the columns quoted in q[from..to], in order
QuotedColumns(q, from, to) ==
    LET toks == SelectSeq(SubSeq(q, from, to), IsField)
    IN  [n \in 1..Len(toks) |-> toks[n].v]
WhereAt(q) == CHOOSE n \in 1..Len(q) : q[n] = Lit(" where ")
SetColumns(q) == QuotedColumns(q, 1, WhereAt(q) - 1)
WhereColumns(q) == QuotedColumns(q, WhereAt(q) + 1, Len(q))
\* the position of field name k in a plan's parameter field list
ArgAt(plan, k) == CHOOSE n \in 1..Len(plan.argFields) : plan.argFields[n] = k
\* the fieldInfos of a model
FieldInfos(t) == Range(t.info)

(***************************************************************************)
(* The claims about the bind plans.                                        *)
(***************************************************************************)

\* C2: every many-to-many insert returns one row per related entity passed to
\* that call, and the values bound in a row are the primary key of the owning
\* entity of that call and the primary key of that row's target entity,
\* whatever earlier calls on the model were given.
C2_M2MInsertBindsThisCall ==
    result.op = "m2mInsert" =>
        LET args == result.bi.args
            fPK == OnlyKey(relModelInfo(result.field))
        IN  /\ Len(args) = 2 * Len(result.args)
            /\ \A r \in 1..Len(result.args) :
                  {args[2 * r - 1], args[2 * r]}
                      = {result.elem["Id"], result.args[r][fPK.name]}

\* C3: every many-to-many query for field F on entity E returns SQL that selects
\* from F's target table joined through F's junction table and binds the one
\* parameter E's primary key, in any order of calls.
C3_M2MQueryBindsThisCall ==
    result.op = "m2mQuery" =>
        LET q == result.bi.query
            rel == relModelInfo(result.field)
            through == relThroughModelInfo(mi, result.field)
        IN  /\ {q[n].v : n \in {m \in 1..Len(q) : q[m].k = "table"}}
                  = {rel.table, through.table}
            /\ q[2].v = rel.table
            /\ result.bi.args = <<result.elem["Id"]>>

\* C4: every update call with column filter F returns SQL whose SET list is
\* exactly the non-auto, non-transient columns F accepts (all of them when F
\* is nil), whatever filters earlier update calls passed.
C4_UpdateSetListFollowsFilter ==
    result.op = "update" =>
        LET set == SetColumns(result.bi.query)
        IN  /\ NoRepeat(set)
            /\ Range(set) = {col.column : col \in
                                {c \in FieldInfos(mi) :
                                    /\ ~c.auto
                                    /\ ~c.transient
                                    /\ colFilterAccepts(result.colFilter, c)}}

\* C5: in an update on a model with a version column, the value bound to the
\* version term of WHERE is the version the struct held before the call and the
\* value bound in the SET list is that version plus one, for every version
\* including 0.
C5_UpdateBindsOldAndNextVersion ==
    LET plan == mi.plans.updatePlan
    IN  (result.op = "update" /\ mi.version # "" /\ plan.versField # "") =>
            /\ result.bi.args[Len(result.bi.args)] = result.elem[mi.version]
            /\ result.bi.args[ArgAt(plan, versFieldConst)] = result.elem[mi.version] + 1

\* C7: the WHERE clause of the update plan binds exactly the key fields in the
\* order in which they were registered, keyFields lists them in that order, and
\* a version column adds exactly one more term.
C7_UpdateWhereInRegistrationOrder ==
    LET plan == mi.plans.updatePlan
    IN  (result.op = "update" /\ result.generated) =>
            /\ plan.keyFields = keyOrder
            /\ WhereColumns(plan.query)
                  = [n \in 1..Len(keyOrder) |-> mi.info[keyOrder[n]].column]
                    \o (IF plan.versField # "" THEN <<mi.info[mi.version].column>>
                        ELSE <<>>)

\* C8: for a model with exactly one auto-increment primary key and no other
\* key, the parameter field list of the insert plan does not contain the key's
\* field name and the generated column list contains no transient column and
\* no many-to-many or reverse-many column.
OneAutoKey ==
    /\ Cardinality(DOMAIN mi.keys) = 1
    /\ OnlyKey(mi).auto
    /\ \A c \in FieldInfos(mi) : c.pk => c = OnlyKey(mi)
C8_InsertPlanOfOneAutoKey ==
    (result.op = "insert" /\ result.generated /\ OneAutoKey) =>
        LET plan == mi.plans.insertPlan
            listed == QuotedColumns(plan.query, 1, Len(plan.query))
        IN  /\ OnlyKey(mi).name \notin Range(plan.argFields)
            /\ \A c \in FieldInfos(mi) :
                  (c.transient \/ c.fieldType \in {RelManyToMany, RelReverseMany})
                      => c.column \notin Range(listed)
\* C8's case: an insert plan generated for a model that has a transient, a
\* many-to-many and a reverse-many column beside its auto-increment key, and
\* binds some column
C8_Witness ==
    /\ result.op = "insert" /\ result.generated /\ OneAutoKey
    /\ \E c \in FieldInfos(mi) : c.transient
    /\ \E c \in FieldInfos(mi) : c.fieldType = RelManyToMany
    /\ \E c \in FieldInfos(mi) : c.fieldType = RelReverseMany
    /\ \E n \in 1..Len(mi.plans.insertPlan.query) : IsField(mi.plans.insertPlan.query[n])
    /\ mi.plans.insertPlan.argFields # <<>>

\* C6: after SetKeys, SetUniqueTogether, AddIndex of a new index or
\* SetVersionCol every bind plan of the model is the zero plan, and the bind
\* call that follows generates its SQL again.
ResetOps == {"SetKeys", "SetUniqueTogether", "SetVersionCol"}
BindOps == {"insert", "update", "delete", "get", "m2mInsert", "m2mQuery"}
PlanOf(op) ==
    CASE op = "insert" -> "insertPlan"
      [] op = "update" -> "updatePlan"
      [] op = "delete" -> "deletePlan"
      [] op = "get" -> "getPlan"
      [] op = "m2mInsert" -> "m2mInsertPlan"
      [] op = "m2mQuery" -> "m2mQueryPlan"
WasReset ==
    \/ result.op \in ResetOps
    \/ result.op = "AddIndex" /\ result.changed
C6_MetadataCallsResetPlans ==
    [][/\ WasReset' => \A p \in PlanNames : mi'.plans[p] = ZeroPlan
       /\ (WasReset /\ result'.op \in BindOps) =>
              /\ result'.generated
              /\ mi'.plans[PlanOf(result'.op)].once]_vars
\* C6's case: a resetting call made while several plans were generated
C6_Witness ==
    /\ WasReset
    /\ Cardinality(result.cached) >= 2
    /\ "updatePlan" \in result.cached
    /\ \A p \in PlanNames : mi.plans[p] = ZeroPlan

(***************************************************************************)
(* The claims about concurrent first calls and about the registry.         *)
(***************************************************************************)

\* C1: whatever the interleaving of the first callers of a bind plan, the body
\* that generates the SQL runs exactly once; a caller leaves Do only when the
\* generation has completed, and all callers see the same SQL text and the
\* same field lists.
C1_PlanGeneratedOnce ==
    LET plan == mi.plans.insertPlan
    IN  /\ runs <= 1
        /\ \A t \in Threads :
              pc[t].at \in {"bind", "done"} =>
                  /\ runs = 1
                  /\ plan.once
                  /\ plan.query # <<>>
                  /\ \A u \in Threads : pc[u].at # "body"
        /\ \A t \in Threads :
              pc[t].at = "done" =>
                  /\ pc[t].seen = plan
                  /\ pc[t].bi.query = plan.query
                  /\ \A u \in Threads :
                        pc[u].at = "done" =>
                            /\ pc[u].bi.query = pc[t].bi.query
                            /\ pc[u].seen.argFields = pc[t].seen.argFields
                            /\ pc[u].seen.keyFields = pc[t].seen.keyFields
\* C1's case: a caller generated the plan while another waited for the mutex,
\* and both have returned
C1_Witness ==
    \E t, u \in Threads :
        /\ pc[t].at = "done" /\ pc[t].path = "generated"
        /\ pc[u].at = "done" /\ pc[u].path = "waited"
        /\ pc[t].bi.query # <<>>

\* C9: once BootStrap has completed no RegisterModel call adds, replaces or
\* removes a model in the index by table name or in the index by full name.
C9_RegistryFrozenAfterBootStrap ==
    [][(modelCache.done /\ result'.op = "RegisterModel") =>
           /\ modelCache'.cache = modelCache.cache
           /\ modelCache'.cacheByFullName = modelCache.cacheByFullName]_vars

Models(mc) == Range(mc.cache) \cup Range(mc.cacheByFullName)
\* no two models of the registry share a table or a full name, and each is
\* found under its own table and its own full name
Distinct(mc) ==
    /\ \A a, b \in Models(mc) : a # b => a.table # b.table /\ a.fullName # b.fullName
    /\ \A k \in DOMAIN mc.cache : mc.cache[k].table = k
    /\ \A k \in DOMAIN mc.cacheByFullName : mc.cacheByFullName[k].fullName = k

Links(mc) ==
    {l \in (DOMAIN mc.cache) \X {"Tags", "Books"} :
        /\ mc.cache[l[1]].manual
        /\ l[2] \in DOMAIN mc.cache[l[1]].info
        /\ mc.cache[l[1]].info[l[2]].fieldType = RelManyToMany}
LinkTarget(l) == getFullName(relElem(l[2]))
\* the table and the full name newM2MModelInfo gives the junction of a link
LinkTable(mc, l) == Underscored(l[1], mc.cacheByFullName[LinkTarget(l)].table)
LinkName(mc, l) == getFullName(camelString(LinkTable(mc, l)))
\* every relation target is registered, both sides of every link have one
\* key, and no junction's table or full name is taken
SelfConsistent(mc) ==
    \A l \in Links(mc) :
        /\ LinkTarget(l) \in DOMAIN mc.cacheByFullName
        /\ Cardinality(DOMAIN mc.cache[l[1]].keys) = 1
        /\ Cardinality(DOMAIN mc.cacheByFullName[LinkTarget(l)].keys) = 1
        /\ LinkTable(mc, l) \notin DOMAIN mc.cache
        /\ LinkName(mc, l) \notin DOMAIN mc.cacheByFullName
\* BootStrap is called on a registry that was not resolved yet
Resolving == result'.op = "BootStrap" /\ ~halted /\ ~modelCache.done
\* the junction model of the link l is in the registry after, with two
\* foreign-key fields and no other: one to the owner on the column of its
\* key, one to the target on the column of its key
JunctionOf(mc, after, l) ==
    /\ LinkTable(mc, l) \in DOMAIN after.cache
    /\ LET j == after.cache[LinkTable(mc, l)]
           owner == mc.cache[l[1]]
           target == mc.cacheByFullName[LinkTarget(l)]
           fks == {f \in DOMAIN j.info : j.info[f].fieldType = RelForeignKey}
       IN  /\ ~j.manual
           /\ j.table = LinkTable(mc, l)
           /\ fks = DOMAIN j.info
           /\ Cardinality(fks) = 2
           /\ \E a, b \in fks :
                 /\ a # b
                 /\ j.relModelInfo[a] = owner.table
                 /\ j.info[a].column = OnlyKey(owner).column
                 /\ j.relModelInfo[b] = target.table
                 /\ j.info[b].column = OnlyKey(target).column

\* C12: when BootStrap resolves a registry whose many-to-many fields all have
\* a registered target and a free junction name, it returns, and for every
\* such field the registry then holds the junction model <table1>_<table2>
\* with exactly two foreign-key columns, one for each side's primary key.
C12_JunctionHasTwoForeignKeys ==
    [][(Resolving /\ SelfConsistent(modelCache)) =>
          /\ ~halted'
          /\ \A l \in Links(modelCache) : JunctionOf(modelCache, modelCache', l)]_vars

\* C13: when BootStrap resolves a registry in which every relation target is
\* registered, it returns without ending the process, and then every reverse
\* field of every model points at a model of the registry.
C13_SelfConsistentGraphResolves ==
    [][(Resolving /\ SelfConsistent(modelCache)) =>
          /\ ~halted'
          /\ modelCache'.done
          /\ \A e \in Models(modelCache') :
                \A n \in DOMAIN e.fieldsReverse :
                    /\ e.fieldsReverse[n] \in DOMAIN e.relModelInfo
                    /\ e.relModelInfo[e.fieldsReverse[n]] \in DOMAIN modelCache'.cache]_vars


\* the junction of some link with a registered target has a table or a full
\* name that is taken in the registry
JunctionCollides(mc) ==
    \E l \in Links(mc) :
        /\ LinkTarget(l) \in DOMAIN mc.cacheByFullName
        /\ \/ LinkTable(mc, l) \in DOMAIN mc.cache
           \/ LinkName(mc, l) \in DOMAIN mc.cacheByFullName
\* the lookup by table and the lookup by full name still give the model e
StillFound(after, e) ==
    /\ e.table \in DOMAIN after.cache
    /\ after.cache[e.table].name = e.name
    /\ after.cache[e.table].manual
    /\ e.fullName \in DOMAIN after.cacheByFullName
    /\ after.cacheByFullName[e.fullName].name = e.name
    /\ after.cacheByFullName[e.fullName].table = e.table
    /\ after.cacheByFullName[e.fullName].manual

\* C14: when BootStrap resolves a registry in which a junction's name is
\* taken, the process ends; and when BootStrap returns, every manually
\* registered model is still what the lookup by its table and the lookup by
\* its full name give.
C14_JunctionNeverReplaces ==
    [][Resolving =>
          /\ JunctionCollides(modelCache) => halted'
          /\ ~halted' => \A e \in Models(modelCache) : e.manual => StillFound(modelCache', e)]_vars


(***************************************************************************)
(* The condition compiler.                                                 *)
(***************************************************************************)
\* a call of getCondSQL, a call of GenerateOperatorSQL, that has returned or
\* panicked
Compiled == result.op = "getCondSQL" /\ result.done
Generated == result.op = "GenerateOperatorSQL" /\ result.done
\* a nil condition or one without terms
Blank(cond) == cond.isNil \/ Len(cond.params) = 0

\* C15: a nil condition and a condition without terms compile to the empty
\* text and no parameters, without a panic, at top level and as
\* sub-condition; so does a condition whose only term is such a
\* sub-condition, not negated: no WHERE is written for it.
C15_EmptyConditionCompilesToNothing ==
    Compiled =>
       /\ Blank(result.cond)
            => result.where = <<>> /\ result.params = <<>> /\ ~result.panic
       /\ (/\ ~result.cond.isNil
           /\ Len(result.cond.params) = 1
           /\ result.cond.params[1].isCond
           /\ ~result.cond.params[1].isNot
           /\ Blank(result.cond.params[1].cond))
            => result.where = <<>> /\ result.params = <<>> /\ ~result.panic
\* the condition without terms was compiled at top level
C15_Witness ==
    /\ Compiled
    /\ result.cond = Cond(<<>>)
    /\ ~result.sub
    /\ result.where = <<>>


\* the text IN (?, ?, ...) with n marks
InList(sql, n) ==
    /\ Len(sql) = 2 * n + 1
    /\ sql[1] = "IN ("
    /\ sql[Len(sql)] = ")"
    /\ \A k \in 1..n : sql[2 * k] = "?"
    /\ \A k \in 1..(n - 1) : sql[2 * k + 1] = ", "
\* an argument that is neither a slice nor a []byte: flattening keeps it
Plain(arg) == arg.kind \notin {"slice", "bytes"}
\* the number an argument or a parameter holds, 0 if it holds none
Number(arg) == IF arg.kind \in {"int", "int64"} THEN arg.i ELSE 0

\* C16: for the operator in, with n >= 1 flat parameters of the arguments the
\* text is IN ( ) around n marks and the parameters are the flat parameters
\* in their order (for arguments that are no slices: one per argument, the
\* same kind of value and the same number); with none the call panics.
C16_InHasOneMarkPerArgument ==
    (Generated /\ result.operator = "in") =>
        LET flat == getFlatParams(result.args)
        IN  /\ Len(flat) = 0 => result.panic
            /\ Len(flat) >= 1 =>
                  /\ ~result.panic
                  /\ InList(result.sql, Len(flat))
                  /\ result.params = flat
            /\ (~result.panic /\ \A k \in DOMAIN result.args : Plain(result.args[k])) =>
                  /\ Len(result.params) = Len(result.args)
                  /\ \A k \in DOMAIN result.args :
                        /\ Number(result.params[k]) = Number(result.args[k])
                        /\ (result.args[k].kind # "int" => result.params[k] = result.args[k])
\* in with the slice [1, 2, 3]
C16_Witness ==
    /\ Generated
    /\ result.operator = "in"
    /\ result.args = <<SliceArg(<<IntArg(1), IntArg(2), IntArg(3)>>)>>
    /\ result.sql = <<"IN (", "?", ", ", "?", ", ", "?", ")">>
    /\ result.params = <<Int64Arg(1), Int64Arg(2), Int64Arg(3)>>

\* C17: for the operator between, two flat parameters give the text
\* BETWEEN ? AND ? and are the parameters, in their order; any other number
\* of them panics.
C17_BetweenTakesTwo ==
    (Generated /\ result.operator = "between") =>
        LET flat == getFlatParams(result.args)
        IN  IF Len(flat) = 2
            THEN /\ ~result.panic
                 /\ result.sql = <<"BETWEEN ? AND ?">>
                 /\ result.params = flat
            ELSE result.panic
\* between 1 and 2
C17_Witness ==
    /\ Generated
    /\ result.operator = "between"
    /\ result.args = <<IntArg(1), IntArg(2)>>
    /\ result.sql = <<"BETWEEN ? AND ?">>
    /\ result.params = <<Int64Arg(1), Int64Arg(2)>>

\* C18: for the operator isnull, the argument true gives IS NULL and false
\* gives IS NOT NULL, both without parameters; a single argument that is no
\* bool panics.
C18_IsNullTakesBool ==
    (Generated /\ result.operator = "isnull" /\ Len(result.args) = 1
               /\ Plain(result.args[1])) =>
        IF result.args[1].kind = "bool"
        THEN /\ ~result.panic
             /\ result.params = <<>>
             /\ result.args[1].b => result.sql = <<"IS NULL">>
             /\ ~result.args[1].b => result.sql = <<"IS NOT NULL">>
        ELSE result.panic
\* isnull with false
C18_Witness ==
    /\ Generated
    /\ result.operator = "isnull"
    /\ result.args = <<BoolArg(FALSE)>>
    /\ result.sql = <<"IS NOT NULL">>
    /\ result.params = <<>>

\* C19: the operator exact with the argument nil gives the text IS NULL and
\* no parameter.
C19_ExactNilIsNull ==
    (Generated /\ result.operator = "exact" /\ result.args = <<NilArg>>) =>
        /\ ~result.panic
        /\ result.sql = <<"IS NULL">>
        /\ result.params = <<>>


\* the word a non-first term's join flag asks for, and NOT for a negated term
JoinWord(p) == IF p.isOr THEN "OR " ELSE "AND "
Before(p, i) ==
    (IF i > 1 THEN <<JoinWord(p)>> ELSE <<>>) \o (IF p.isNot THEN <<"NOT ">> ELSE <<>>)
RECURSIVE Composed(_, _, _, _)
\* the text the terms ps[i..] are to compile to: before each term its join
\* word and NOT, then the term; a sub-condition stands in parentheses, every
\* one when always, else only one whose own text is not empty
Composed(ps, i, text, always) ==
    IF i > Len(ps) THEN <<>>
    ELSE LET p == ps[i]
             inner == Composed(p.cond.params, 1, text, always)
             body == IF ~p.isCond THEN condLeaf(p, text).where
                     ELSE IF always \/ inner # <<>>
                          THEN <<"( ">> \o inner \o <<") ">>
                          ELSE <<>>
         IN  Before(p, i) \o body \o Composed(ps, i + 1, text, always)
RECURSIVE TermParams(_, _, _)
\* the parameters of the terms ps[i..], term after term, a sub-condition's
\* being those of its own terms
TermParams(ps, i, text) ==
    IF i > Len(ps) THEN <<>>
    ELSE (IF ps[i].isCond THEN TermParams(ps[i].cond.params, 1, text)
          ELSE condLeaf(ps[i], text).params)
            \o TermParams(ps, i + 1, text)
\* a condition with terms was compiled without a panic
Composing == Compiled /\ ~Blank(result.cond) /\ ~result.panic
\* the compiled text without the leading WHERE
Body(where) == IF where # <<>> /\ where[1] = "WHERE " THEN Tail(where) ELSE where

\* C20: in a compiled condition every non-first term is preceded by AND or OR
\* as its join flag says, every negated term by NOT, every nested
\* sub-condition stands in parentheses, and the parameters are the terms'
\* parameters in the order of the terms.
C20_EverySubConditionParenthesized ==
    Composing =>
        /\ Body(result.where) = Composed(result.cond.params, 1, result.text, TRUE)
        /\ result.params = TermParams(result.cond.params, 1, result.text)
\* C20, as the code has it: the same, with parentheses around every nested
\* sub-condition whose own text is not empty; one whose text is empty writes
\* nothing but its join word and NOT.
C20_TermsJoinedInOrder ==
    Composing =>
        /\ Body(result.where) = Composed(result.cond.params, 1, result.text, FALSE)
        /\ result.params = TermParams(result.cond.params, 1, result.text)
        /\ (result.where # <<>> /\ ~result.sub) => result.where[1] = "WHERE "
\* Name = 'a' OR NOT ( Name = 'a' OR id BETWEEN 1 AND 2 )
C20_Witness ==
    /\ Composing
    /\ ~result.sub
    /\ result.text = "= ?"
    /\ result.cond =
          Cond(<<Leaf(FALSE, FALSE, <<"Name">>, <<StrArg("a")>>),
                 SubCond(TRUE, TRUE,
                    Cond(<<Leaf(FALSE, FALSE, <<"Name">>, <<StrArg("a")>>),
                           Leaf(TRUE, FALSE, <<"id", "between">>,
                                <<IntArg(1), IntArg(2)>>)>>))>>)
    /\ Len(result.where) = 18
    /\ result.where[1] = "WHERE "
    /\ SubSeq(result.where, 6, 8) = <<"OR ", "NOT ", "( ">>
    /\ result.where[16] = "BETWEEN ? AND ?"
    /\ result.where[18] = ") "
    /\ result.params = <<StrArg("a"), StrArg("a"), Int64Arg(1), Int64Arg(2)>>


\* the sequence without its k-th element
Without(ps, k) == SubSeq(ps, 1, k - 1) \o SubSeq(ps, k + 1, Len(ps))
\* the terms of a condition that are empty sub-conditions
EmptyTerms(cond) ==
    {k \in DOMAIN cond.params : cond.params[k].isCond /\ Blank(cond.params[k].cond)}

\* C30: a condition with an empty sub-condition among its terms, whatever its
\* place and flags, compiles to the text and the parameters of the condition
\* without that term.
C30_EmptySubConditionAddsNothing ==
    (Compiled /\ ~result.cond.isNil) =>
        \A k \in EmptyTerms(result.cond) :
            LET out == getCondSQL(Cond(Without(result.cond.params, k)),
                                  result.sub, result.text)
            IN  /\ result.panic = out.panic
                /\ result.where = out.where
                /\ result.params = out.params


\* a call of getFlatParams has ended
Flattened == result.op = "getFlatParams" /\ result.done
\* the struct values among the arguments, those inside slices included
RECURSIVE StructsIn(_)
StructsIn(args) ==
    IF Len(args) = 0 THEN {}
    ELSE (CASE Head(args).kind = "struct" -> {Head(args)}
            [] Head(args).kind = "slice" -> StructsIn(Head(args).elems)
            [] OTHER -> {})
         \cup StructsIn(Tail(args))

\* C23: flattening turns an instance of a registered model into the value of
\* its primary key, and panics only when an instance among the arguments is
\* of an unknown model.
C23_ModelInstanceFlattensToKey ==
    Flattened =>
        /\ result.panic => \E v \in StructsIn(result.args) : ~v.known
        /\ \A v \in StructsIn(result.args) :
              (result.args = <<v>> /\ v.known) => result.params = <<Int64Arg(v.pk)>>


\* C24: no two fieldInfos of a model have the same column, and the columns
\* map of the model holds every fieldInfo under the column it carries.
C24_ColumnsUniqueAndIndexed ==
    /\ \A f, g \in DOMAIN mi.info : f # g => mi.info[f].column # mi.info[g].column
    /\ \A f \in DOMAIN mi.info :
          /\ mi.info[f].column \in DOMAIN mi.columns
          /\ mi.columns[mi.info[f].column] = f


\* a call of ToStatementString has ended
Assembled == result.op = "ToStatementString" /\ result.done
\* a clause that is written after its keyword unless it is empty
Clause(keyword, text) == IF text = "" THEN <<>> ELSE <<keyword, text>>
\* the predicates of WHERE: those of the joins first, " and " between the
\* two kinds when both are there
Predicates(s) ==
    CASE s.outerJoinsAfterWhere = "" -> s.whereClause
      [] s.whereClause = "" -> s.outerJoinsAfterWhere
      [] OTHER -> s.outerJoinsAfterWhere \o " and " \o s.whereClause
RECURSIVE Joined(_)
\* the text a sequence of pieces makes
Joined(pieces) == IF pieces = <<>> THEN "" ELSE Head(pieces) \o Joined(Tail(pieces))
\* the keywords of a statement
Keywords == {"select ", " from ", " where ", "  group by ", "  order by  "}
KeywordsOf(sql) == SelectSeq(sql, LAMBDA piece : piece \in Keywords)

LookedUp == result.op = "GetByAny" /\ result.done
\* the fields of Page a path designates at each of the four steps: by field
\* name, by field name whatever the case, by column, by column whatever the case
StepMatches(name) ==
    LET info == newModelInfo("Page").info
    IN  << {f \in DOMAIN info : f = name},
           {f \in DOMAIN info : ToLower(f) = ToLower(name)},
           {f \in DOMAIN info : info[f].column = name},
           {f \in DOMAIN info : ToLower(info[f].column) = ToLower(name)} >>
\* the match of the first step that has one, as a set: empty when none has
FirstMatch(name) ==
    LET steps == StepMatches(name)
        hits == {n \in 1..4 : steps[n] # {}}
    IN  IF hits = {} THEN {}
        ELSE steps[CHOOSE n \in hits : \A o \in hits : n <= o]

\* C21: a path resolves to the first match among field name, field name
\* whatever the case, column name, column name whatever the case, and fails
\* only when none of the four matches.
C21_PathResolvesInFourSteps ==
    LookedUp =>
        IF result.on = "TableMap"
        THEN result.found = {FieldMap[f] : f \in FirstMatch(result.name)}
        ELSE result.found = FirstMatch(result.name)


\* goroutine t returns from Get, or panics in it
Gets(t) == pc[t].at = "have" /\ pc'[t].at = "idle" /\ database' = database

\* C22: whatever the interleaving of the calls, Get panics exactly when no
\* Set has returned yet, and a Get on what a Database() call returned that
\* began after the last Set(d) returned gives d.
C22_OneSingletonForAll ==
    [][\A t \in Threads :
          Gets(t) =>
              /\ halted' <=> database.sets = 0
              /\ (database.sets > 0 /\ pc[t].since = database.sets) =>
                    /\ ~halted'
                    /\ pc'[t].got = database.last]_vars


\* the forward relation fields of the model under table k: foreign keys,
\* one-to-one and many-to-many fields
Forward(mc, k) ==
    {f \in DOMAIN mc.cache[k].info : mc.cache[k].info[f].fieldType \in relTypes}
\* the table of the model a declared relation field points at
TargetTable(f) == getTableName(relElem(f))
\* every declared relation field points at a registered model: the first
\* stage of bootStrap passes
TargetsRegistered(mc) ==
    \A k \in DOMAIN mc.cache : \A f \in DOMAIN mc.cache[k].info :
        mc.cache[k].info[f].fieldType \in relTypes \cup reverseTypes
            => TargetTable(f) \in DOMAIN mc.cache
\* the sources of the target under table t: the models with a forward field
\* to it that no declared reverse field of the target points back at
Sources(mc, t) ==
    {k \in DOMAIN mc.cache :
        /\ \E f \in Forward(mc, k) : TargetTable(f) = t
        /\ ~\E r \in DOMAIN mc.cache[t].info :
              /\ mc.cache[t].info[r].fieldType \in reverseTypes
              /\ TargetTable(r) = k}
\* the names tried for the reverse field of the source called name
Candidates(name) ==
    <<name>> \o [cnt \in 1..MaxRetries |-> name \o ToString(cnt - 1)]
\* the places of the candidates that collide with no field of the target
FreeAt(target, name) ==
    {n \in 1..(MaxRetries + 1) : /\ Candidates(name)[n] \notin DOMAIN target.info
                  /\ Candidates(name)[n] \notin DOMAIN target.columns}
FirstFree(target, name) ==
    Candidates(name)[CHOOSE n \in FreeAt(target, name) : \A m \in FreeAt(target, name) : n <= m]
\* the reverse field r of the target after is the one synthesized for the
\* source under table k: a reverse field pointing at k, reverse-one when the
\* source's fields to the target are one-to-one, reverse-many otherwise
SynthesizedFor(mc, after, t, k, r) ==
    /\ r \in DOMAIN after.info
    /\ r \notin DOMAIN mc.cache[t].info
    /\ after.info[r].name = r
    /\ after.info[r].column = r
    /\ \E n \in 1..Len(after.fieldsReverse) : after.fieldsReverse[n] = r
    /\ after.relModelInfo[r] = k
    /\ after.info[r].fieldType =
          (IF \A f \in Forward(mc, k) :
                 TargetTable(f) = t => mc.cache[k].info[f].fieldType = RelOneToOne
           THEN RelReverseOne ELSE RelReverseMany)

ReverseOf(mc, k) ==
    {r \in DOMAIN mc.cache[k].info : mc.cache[k].info[r].fieldType \in reverseTypes}
KeysFrom(mc, k) ==
    {f \in DOMAIN mc.cache[k].info :
        mc.cache[k].info[f].fieldType \in {RelForeignKey, RelOneToOne}}
\* BootStrap has resolved the registry and returned
Resolves == Resolving /\ ~halted'
\* the reverse field r of the model under table k and the field of the model
\* it points at that it records as its counterpart record each other
LinkedBack(mc, k, r) ==
    LET rmi == mc.cache[mc.cache[k].relModelInfo[r]]
        f == mc.cache[k].reverseFieldInfo[r]
    IN  /\ f \in DOMAIN rmi.reverseFieldInfo
        /\ rmi.reverseFieldInfo[f] = r

\* C27: after BootStrap every reverse-one field records a one-to-one field
\* of the model it points at, and every reverse field that records a
\* one-to-one field or a foreign key is recorded by that field in turn.
C27_ReversePairsLinkedBothWays ==
    [][Resolves =>
          \A k \in DOMAIN modelCache'.cache : \A r \in ReverseOf(modelCache', k) :
              LET e == modelCache'.cache[k]
                  rmi == modelCache'.cache[e.relModelInfo[r]]
              IN  /\ e.info[r].fieldType = RelReverseOne =>
                        /\ r \in DOMAIN e.reverseFieldInfo
                        /\ rmi.info[e.reverseFieldInfo[r]].fieldType = RelOneToOne
                  /\ (/\ r \in DOMAIN e.reverseFieldInfo
                      /\ e.reverseFieldInfo[r] \in KeysFrom(modelCache', e.relModelInfo[r]))
                        => LinkedBack(modelCache', k, r)]_vars

\* C28: after BootStrap every foreign key and every one-to-one field records
\* a reverse field as its counterpart.
C28_EveryForwardFieldHasReverse ==
    [][Resolves =>
          \A k \in DOMAIN modelCache'.cache : \A f \in KeysFrom(modelCache', k) :
              f \in DOMAIN modelCache'.cache[k].reverseFieldInfo]_vars


\* the placeholders of a generated text, in order of appearance
IsBindVar(tok) == tok.k = "bind"
Placeholders(q) == SelectSeq(q, IsBindVar)
\* the statement plans with placeholders numbered by a running index
StatementPlans == {"insertPlan", "updatePlan", "deletePlan"}

\* C29: in every generated insert, update and delete statement the k-th
\* placeholder carries the index k - 1, counted from 0, and there is one
\* placeholder for each entry of the plan's parameter field list, so that
\* the index of a placeholder is the place of the field that supplies it.
C29_PlaceholdersNumberedByArgument ==
    \A p \in StatementPlans :
        mi.plans[p].once =>
            LET holders == Placeholders(mi.plans[p].query)
            IN  /\ Len(holders) = Len(mi.plans[p].argFields)
                /\ \A k \in 1..Len(holders) : holders[k].i = k - 1

=============================================================================
